---- MODULE Spec2Model ----
(***************************************************************************)
(* The Cumulative Risk Index (CRI) engine of the farm-advisory backend:    *)
(* calculateCRI (utils/dataValidator.js), the daily aggregator             *)
(* addEnvironmentalReading (utils/dataAggregator.js), the CRI             *)
(* reconciliation of diagnosePlant (controllers/diagnosisController.js),   *)
(* the alert rules (utils/notificationTriggers.js), the validator          *)
(* validateEnvironmentalData and the collection run executeDataCollection  *)
(* (utils/dataScheduler.js).                                               *)
(*                                                                         *)
(* JavaScript numbers are modelled as exact rationals <<n, d>> in lowest   *)
(* terms with d > 0, so that thresholds, averages and the two-decimal      *)
(* rounding of toFixed(2) are computed, not assumed.                       *)
(***************************************************************************)
EXTENDS Integers, Sequences, FiniteSets, Bags, TLC

VARIABLES
    reading,      \* calculateCRI: the `data` argument of the current call
    criResult,    \* calculateCRI: the object returned for `reading`
    prevReading,  \* calculateCRI: the argument of the previous call
    prevResult,   \* calculateCRI: the object returned by the previous call
    cpc,          \* calculateCRI: "input" before the call, "returned" after it
    today,        \* the current calendar day (new Date() truncated to the day)
    db,           \* the EnvironmentalData collection: _id -> document
    calls,        \* the addEnvironmentalReading calls, in flight or returned
    diags,        \* the Diagnosis collection: _id -> document
    reqs,         \* the diagnosePlant requests, in flight or answered
    raw,          \* validateEnvironmentalData: the `data` argument
    cleaned,      \* validateEnvironmentalData: the object returned for `raw`
    delivery,     \* what sendNotification meets: the farmer, the settings, the save
    notifications,\* the sendNotification calls made, each with its outcome
    runs,         \* the executeDataCollection runs, in flight or settled
    scheduler     \* the scheduler module: its two handles and the timers set

vars == <<reading, criResult, prevReading, prevResult, cpc, raw, cleaned,
          today, db, calls, diags, reqs, delivery, notifications, runs,
          scheduler>>
\* The variables of the calls of the pure functions, and those of the store
\* and its handlers.
pureVars == <<reading, criResult, prevReading, prevResult, cpc, raw, cleaned>>
storeVars == <<today, db, calls, diags, reqs, delivery, notifications, runs,
               scheduler>>

\* The scheduler module as loaded: both handles null, no timer set.
SchedulerOff ==
    [weatherIntervalId |-> 0, farmingTipsIntervalId |-> 0, intervals |-> {},
     timeouts |-> {}, nextId |-> 1, log |-> <<>>, lastCall |-> "none",
     env |-> "production"]

----------------------------------------------------------------------------
(* Rational arithmetic.                                                    *)

Abs(n) == IF n < 0 THEN -n ELSE n

RECURSIVE GCD(_, _)
GCD(a, b) == IF b = 0 THEN a ELSE GCD(b, a % b)

Norm(n, d) ==
    LET s == IF d < 0 THEN -1 ELSE 1
        g == GCD(Abs(n), Abs(d))
    IN  <<(s * n) \div g, (s * d) \div g>>

R(k) == <<k, 1>>
Frac(n, d) == Norm(n, d)

RAdd(x, y) == Norm(x[1] * y[2] + y[1] * x[2], x[2] * y[2])
RSub(x, y) == Norm(x[1] * y[2] - y[1] * x[2], x[2] * y[2])
RMul(x, y) == Norm(x[1] * y[1], x[2] * y[2])
RDiv(x, y) == Norm(x[1] * y[2], x[2] * y[1])
RLt(x, y) == x[1] * y[2] < y[1] * x[2]
RLe(x, y) == x[1] * y[2] <= y[1] * x[2]
RGt(x, y) == RLt(y, x)
RGe(x, y) == RLe(y, x)
RMin(x, y) == IF RLe(x, y) THEN x ELSE y
RMax(x, y) == IF RGe(x, y) THEN x ELSE y
RAbs(x) == <<Abs(x[1]), x[2]>>

\* Number.prototype.toFixed(k) followed by parseFloat, for scale = 10^k: the
\* nearest multiple of 1/scale, a tie going to the larger magnitude.
ToFixed(x, scale) ==
    LET m == Abs(x[1]) * scale
        q == (2 * m + x[2]) \div (2 * x[2])
    IN  Norm(IF x[1] < 0 THEN -q ELSE q, scale)

----------------------------------------------------------------------------
(* calculateCRI, utils/dataValidator.js.                                   *)

weights == [humidity |-> Frac(4, 10), temperature |-> Frac(4, 10),
            soilMoisture |-> Frac(2, 10)]

\* tempFactor with the neutral 21-23 band folded into the cool branch.
tempFactorNoGap(temperature) ==
    IF RLt(temperature, R(10)) \/ RGt(temperature, R(29)) THEN R(0)
    ELSE IF RGe(temperature, R(10)) /\ RLt(temperature, R(24))
         THEN RMul(R(25), RSub(R(1), RDiv(RSub(temperature, R(10)), R(10))))
    ELSE RMul(R(-25), RSub(R(1), RDiv(RSub(R(29), temperature), R(5))))

tempFactor(temperature) ==
    IF RLt(temperature, R(10)) \/ RGt(temperature, R(29)) THEN R(0)
    ELSE IF RGe(temperature, R(10)) /\ RLe(temperature, R(20))
         THEN RMul(R(25), RSub(R(1), RDiv(RSub(temperature, R(10)), R(10))))
    ELSE IF RGe(temperature, R(24)) /\ RLe(temperature, R(29))
         THEN RMul(R(-25), RSub(R(1), RDiv(RSub(R(29), temperature), R(5))))
    ELSE R(0)

\* humidityFactor with the high branch measured from 100 instead of from 80.
humidityFactorFalling(humidity) ==
    IF RGt(humidity, R(80))
    THEN RMul(R(30), RDiv(RSub(R(100), humidity), R(20)))
    ELSE IF RLt(humidity, R(60))
         THEN RMul(R(-20), RDiv(RSub(R(60), humidity), R(60)))
    ELSE R(0)

humidityFactor(humidity) ==
    IF RGt(humidity, R(80))
    THEN RMul(R(30), RDiv(RSub(humidity, R(80)), R(20)))
    ELSE IF RLt(humidity, R(60))
         THEN RMul(R(-20), RDiv(RSub(R(60), humidity), R(60)))
    ELSE R(0)

\* soilFactor with a range of 50 instead of 25 on either side.
soilFactorWide(soilMoisture) ==
    IF RGt(soilMoisture, R(60))
    THEN RMul(R(50), RDiv(RSub(soilMoisture, R(60)), R(40)))
    ELSE IF RLt(soilMoisture, R(40))
         THEN RMul(R(-50), RDiv(RSub(R(40), soilMoisture), R(40)))
    ELSE R(0)

soilFactor(soilMoisture) ==
    IF RGt(soilMoisture, R(60))
    THEN RMul(R(25), RDiv(RSub(soilMoisture, R(60)), R(40)))
    ELSE IF RLt(soilMoisture, R(40))
         THEN RMul(R(-25), RDiv(RSub(R(40), soilMoisture), R(40)))
    ELSE R(0)

\* The weighted sum added to the baseline (lines 118-121).
weightedFactors(data) ==
    RAdd(RAdd(RMul(tempFactor(data.temperature), weights.temperature),
              RMul(humidityFactor(data.humidity), weights.humidity)),
         RMul(soilFactor(data.soilMoisture), weights.soilMoisture))

\* criScore without the Math.min/Math.max of line 124.
criScoreUnclamped(data) == RAdd(R(50), weightedFactors(data))

\* The local `cri` after line 124: baseline 50 plus the weighted factors,
\* kept within 1..100.
criScore(data) == RMin(RMax(RAdd(R(50), weightedFactors(data)), R(1)), R(100))

\* Lines 131-160: the classification of the local `cri`.
classifyBlight(cri) ==
    IF RLt(cri, R(50)) THEN "Early Blight"
    ELSE IF RGt(cri, R(50)) THEN "Late Blight"
    ELSE "Healthy"

\* classifyRisk with the Early Blight Low band opened at 40 (> for >=).
classifyRiskStrict(cri) ==
    IF RLt(cri, R(50))
    THEN IF RGt(cri, R(40)) THEN "Low"
         ELSE IF RGe(cri, R(30)) THEN "Medium"
         ELSE IF RGe(cri, R(20)) THEN "High"
         ELSE "Critical"
    ELSE IF RGt(cri, R(50))
    THEN IF RLe(cri, R(60)) THEN "Low"
         ELSE IF RLe(cri, R(70)) THEN "Medium"
         ELSE IF RLe(cri, R(80)) THEN "High"
         ELSE "Critical"
    ELSE "Low"

classifyRisk(cri) ==
    IF RLt(cri, R(50))
    THEN IF RGe(cri, R(40)) THEN "Low"
         ELSE IF RGe(cri, R(30)) THEN "Medium"
         ELSE IF RGe(cri, R(20)) THEN "High"
         ELSE "Critical"
    ELSE IF RGt(cri, R(50))
    THEN IF RLe(cri, R(60)) THEN "Low"
         ELSE IF RLe(cri, R(70)) THEN "Medium"
         ELSE IF RLe(cri, R(80)) THEN "High"
         ELSE "Critical"
    ELSE "Low"

calculateCRI(data) ==
    LET cri == criScore(data)
    IN  [cri |-> ToFixed(cri, 100),
         riskLevel |-> classifyRisk(cri),
         blightType |-> classifyBlight(cri)]

----------------------------------------------------------------------------
(* calculateCRI as a state machine: a reading is drawn, the function is    *)
(* applied to it, and it may be applied again to the same reading with     *)
(* another humidity (the previous call is remembered).                     *)

Nums(S) == {R(k) : k \in S}

\* The day on which the model starts, counted from 1 January (day 0).
StartDay == 89

\* The readings a call may be given: in-range values on and around every
\* threshold of the three factors, values off the integer grid, and finite
\* values outside the physical ranges.
Temperatures == Nums({5, 9, 10, 12, 15, 18, 19, 20, 22, 24, 26, 28, 29, 30})
Humidities ==
    Nums({-700, 0, 15, 30, 45, 60, 70, 80, 85, 90, 95, 100, 300})
        \cup {Frac(105, 2), Frac(5997, 100)}
SoilMoistures ==
    Nums({-56, 0, 8, 24, 32, 40, 50, 60, 76, 92, 100, 124})
        \cup {Frac(3997, 100)}
Rainfalls == Nums({0, 3})

CRIInputs ==
    [temperature : Temperatures, humidity : Humidities,
     rainfall : Rainfalls, soilMoisture : SoilMoistures]

NoResult == [cri |-> R(0), riskLevel |-> "none", blightType |-> "none"]

\* The variables of the aggregator and of the reconciler, before anything ran.
StoreEmpty ==
    /\ today = StartDay /\ db = <<>> /\ calls = <<>> /\ diags = <<>> /\ reqs = <<>>
    /\ delivery = "ok" /\ notifications = EmptyBag /\ runs = <<>>
    /\ scheduler = SchedulerOff

InitCRI ==
    /\ reading \in CRIInputs
    /\ prevReading = reading
    /\ criResult = NoResult
    /\ prevResult = NoResult
    /\ cpc = "input"
    /\ raw = NoResult
    /\ cleaned = NoResult
    /\ StoreEmpty

\* const r = calculateCRI(reading)
CallCalculateCRI ==
    /\ cpc = "input"
    /\ criResult' = calculateCRI(reading)
    /\ cpc' = "returned"
    /\ UNCHANGED <<reading, prevReading, prevResult>>
    /\ UNCHANGED storeVars
    /\ UNCHANGED <<raw, cleaned>>

\* A second call, on the same reading with another humidity.
CallAgainWithHumidity ==
    /\ cpc = "returned"
    /\ \E h \in Humidities :
         /\ h # reading.humidity
         /\ reading' = [reading EXCEPT !.humidity = h]
         /\ criResult' = calculateCRI(reading')
    /\ prevReading' = reading
    /\ prevResult' = criResult
    /\ cpc' = "again"
    /\ UNCHANGED storeVars
    /\ UNCHANGED <<raw, cleaned>>

NextCRI == CallCalculateCRI \/ CallAgainWithHumidity

SpecCRI == InitCRI /\ [][NextCRI]_vars

----------------------------------------------------------------------------
(* Claims about calculateCRI, checked under SpecCRI.                       *)

Returned == cpc \in {"returned", "again"}

InRange(x, lo, hi) == RLe(R(lo), x) /\ RLe(x, R(hi))

\* C1: for every reading of finite numbers, values outside their physical
\* ranges included, the cri calculateCRI returns satisfies 1 <= cri <= 100.
C1_CriWithinBounds ==
    /\ Returned => InRange(criResult.cri, 1, 100)
    /\ cpc = "again" => InRange(prevResult.cri, 1, 100)

\* A humidity of 300 drives the sum to 50 + 132 and the result is held at 100;
\* a humidity of -700 is held at 1 in the same way.
C1_Witness ==
    /\ cpc = "returned"
    /\ reading.humidity = R(300)
    /\ RGt(RAdd(R(50), weightedFactors(reading)), R(100))
    /\ criResult.cri = R(100)

\* C2: the classification follows the score (the local cri the thresholds
\* are applied to, after clamping): below 50 is Early Blight with Low for
\* >= 40, Medium for [30, 40), High for [20, 30), Critical below 20; above 50
\* is Late Blight with Low for <= 60, Medium for (60, 70], High for (70, 80],
\* Critical above 80; exactly 50 is Healthy with Low.
C2_Banding ==
    Returned =>
        LET c == criScore(reading)
            b == criResult.blightType
            l == criResult.riskLevel
        IN  /\ RLt(c, R(50)) => b = "Early Blight"
            /\ RLt(c, R(50)) /\ RGe(c, R(40)) => l = "Low"
            /\ RLt(c, R(40)) /\ RGe(c, R(30)) => l = "Medium"
            /\ RLt(c, R(30)) /\ RGe(c, R(20)) => l = "High"
            /\ RLt(c, R(20)) => l = "Critical"
            /\ RGt(c, R(50)) => b = "Late Blight"
            /\ RGt(c, R(50)) /\ RLe(c, R(60)) => l = "Low"
            /\ RGt(c, R(60)) /\ RLe(c, R(70)) => l = "Medium"
            /\ RGt(c, R(70)) /\ RLe(c, R(80)) => l = "High"
            /\ RGt(c, R(80)) => l = "Critical"
            /\ c = R(50) => b = "Healthy" /\ l = "Low"

\* A score of exactly 40 (temperature 29, the other factors neutral) is Low.
C2_Witness ==
    /\ cpc = "returned"
    /\ criScore(reading) = R(40)
    /\ criResult.riskLevel = "Low"
    /\ criResult.blightType = "Early Blight"

\* The inputs for which a factor is exactly zero, read off the branches.
TempNeutral(t) == ~(RGe(t, R(10)) /\ RLt(t, R(20))) /\ ~(RGt(t, R(24)) /\ RLe(t, R(29)))
HumidityNeutral(h) == InRange(h, 60, 80)
SoilNeutral(s) == InRange(s, 40, 60)
AllNeutral(d) ==
    TempNeutral(d.temperature) /\ HumidityNeutral(d.humidity) /\ SoilNeutral(d.soilMoisture)

C4_MonotoneInHumidity ==
    LET lo == IF RLe(prevReading.humidity, reading.humidity) THEN prevReading ELSE reading
        hi == IF RLe(prevReading.humidity, reading.humidity) THEN reading ELSE prevReading
        criOf(d) == IF d = reading THEN criResult.cri ELSE prevResult.cri
    IN  (/\ cpc = "again"
         /\ prevReading.temperature = reading.temperature
         /\ prevReading.rainfall = reading.rainfall
         /\ prevReading.soilMoisture = reading.soilMoisture
         /\ RGt(lo.humidity, R(80))
         /\ RLe(hi.humidity, R(100)))
        => RLe(criOf(lo), criOf(hi))

C4_Witness ==
    /\ cpc = "again"
    /\ prevReading.humidity = R(85)
    /\ reading.humidity = R(95)
    /\ reading.temperature = R(10)
    /\ reading.soilMoisture = R(76)
    /\ RLt(prevResult.cri, criResult.cri)

----------------------------------------------------------------------------
(* The daily aggregator, utils/dataAggregator.js.                          *)

NoFarmer == "null"
NoDiagnosis == "null"
DefaultLocation == "default-location"

\* Array.prototype.filter(Boolean) on a list of numbers: 0 is falsy.
filterBoolean(numbers) == SelectSeq(numbers, LAMBDA x : x # R(0))

RECURSIVE RSum(_)
RSum(numbers) ==
    IF numbers = <<>> THEN R(0) ELSE RAdd(Head(numbers), RSum(Tail(numbers)))

calculateAverage(numbers) ==
    IF Len(numbers) = 0 THEN R(0) ELSE RDiv(RSum(numbers), R(Len(numbers)))

calculatePercentageChange(newValue, oldValue) ==
    IF oldValue = R(0) THEN (IF RGt(newValue, R(0)) THEN R(100) ELSE R(0))
    ELSE RMul(RDiv(RSub(newValue, oldValue), RAbs(oldValue)), R(100))

Field(readings, f) == [i \in 1..Len(readings) |-> readings[i][f]]

\* The four bandings adjustCRIBasedOnDiagnosis repeats (lines 507-510,
\* 516-519, 526-541).
earlyRisk(cri) ==
    IF RGe(cri, R(40)) THEN "Low"
    ELSE IF RGe(cri, R(30)) THEN "Medium"
    ELSE IF RGe(cri, R(20)) THEN "High"
    ELSE "Critical"

lateRisk(cri) ==
    IF RLe(cri, R(60)) THEN "Low"
    ELSE IF RLe(cri, R(70)) THEN "Medium"
    ELSE IF RLe(cri, R(80)) THEN "High"
    ELSE "Critical"

adjustCRIBasedOnDiagnosis(cri, imageDiagnosis) ==
    LET byCri == [adjustedCRI |-> cri,
                  riskLevel |-> IF RLt(cri, R(50)) THEN earlyRisk(cri)
                                ELSE IF RGt(cri, R(50)) THEN lateRisk(cri)
                                ELSE "Low",
                  blightType |-> IF RLt(cri, R(50)) THEN "Early Blight"
                                 ELSE IF RGt(cri, R(50)) THEN "Late Blight"
                                 ELSE "Healthy"]
        early == IF RGe(cri, R(50)) THEN RMax(R(1), RSub(cri, R(20))) ELSE cri
        late == IF RLe(cri, R(50)) THEN RMin(R(100), RAdd(cri, R(20))) ELSE cri
        r == CASE imageDiagnosis = NoDiagnosis -> byCri
               [] imageDiagnosis = "Early Blight" ->
                     [adjustedCRI |-> early, riskLevel |-> earlyRisk(early),
                      blightType |-> "Early Blight"]
               [] imageDiagnosis = "Late Blight" ->
                     [adjustedCRI |-> late, riskLevel |-> lateRisk(late),
                      blightType |-> "Late Blight"]
               [] imageDiagnosis = "Healthy" ->
                     [adjustedCRI |-> R(50), riskLevel |-> "Low",
                      blightType |-> "Healthy"]
               [] OTHER -> byCri
    IN  [r EXCEPT !.adjustedCRI = ToFixed(@, 100)]

\* Calendar days are numbered from 1 January of a 365-day year.
MonthLengths == <<31, 28, 31, 30, 31, 30, 31, 31, 30, 31, 30, 31>>

RECURSIVE DaysBefore(_)
DaysBefore(m) == IF m = 1 THEN 0 ELSE DaysBefore(m - 1) + MonthLengths[m - 1]

YearOf(date) == date \div 365
MonthOf(date) ==
    CHOOSE m \in 1..12 :
        /\ DaysBefore(m) <= date % 365
        /\ date % 365 < DaysBefore(m) + MonthLengths[m]
DayOf(date) == (date % 365) - DaysBefore(MonthOf(date)) + 1
\* new Date(year, month, day): a day past the month's end runs on into the
\* following month.
MakeDate(y, m, d) == y * 365 + DaysBefore(m) + d - 1

\* date.setDate(date.getDate() - n)
setDateBack(date, n) == date - n
\* date.setMonth(date.getMonth() - 1)
setMonthBack(date) ==
    IF MonthOf(date) = 1 THEN MakeDate(YearOf(date) - 1, 12, DayOf(date))
    ELSE MakeDate(YearOf(date), MonthOf(date) - 1, DayOf(date))

NoChanges == [empty |-> TRUE]
EmptyPercentageChanges ==
    [daily |-> NoChanges, weekly |-> NoChanges, monthly |-> NoChanges]

Metrics == {"temperature", "humidity", "rainfall", "soilMoisture", "cri"}

\* The object built for one period (lines 786-807), each value through
\* toFixed(1) and the schema's cast to Number.
changesAgainst(dailyRecord, older) ==
    [m \in Metrics |->
        ToFixed(calculatePercentageChange(dailyRecord[m], older[m]), 10)]

\* EnvironmentalData.findOne({ date, locationId }): the documents it may return.
findByDateLocation(store, date, locationId) ==
    {i \in DOMAIN store : store[i].date = date /\ store[i].locationId = locationId}

periodChanges(dailyRecord, store, date) ==
    LET found == findByDateLocation(store, date, dailyRecord.locationId)
    IN  IF found = {} THEN {NoChanges}
        ELSE {changesAgainst(dailyRecord, store[i]) : i \in found}

\* calculateAndUpdatePercentageChanges: the values dailyRecord.percentageChanges
\* may be left with, given the stored documents.
calculateAndUpdatePercentageChanges(dailyRecord, store) ==
    [daily : periodChanges(dailyRecord, store, setDateBack(dailyRecord.date, 1)),
     weekly : periodChanges(dailyRecord, store, setDateBack(dailyRecord.date, 7)),
     monthly : periodChanges(dailyRecord, store, setMonthBack(dailyRecord.date))]

\* Lines 597-608: the documents the query of addEnvironmentalReading selects.
findDailyRecord(store, date, coordinates, farmerId) ==
    {i \in DOMAIN store :
        /\ store[i].date = date
        /\ store[i].coordinates = coordinates
        /\ (farmerId # NoFarmer => store[i].farmerId = farmerId)}

\* Lines 630-672: the loaded document with the reading folded in.
foldInto(dailyRecord, r, imageDiagnosis) ==
    LET readings == Append(dailyRecord.readings, r)
        temperature == calculateAverage(filterBoolean(Field(readings, "temperature")))
        humidity == calculateAverage(filterBoolean(Field(readings, "humidity")))
        soilMoisture == calculateAverage(filterBoolean(Field(readings, "soilMoisture")))
        totalRainfall == RSum(Field(readings, "rainfall"))
        c == calculateCRI([temperature |-> temperature, humidity |-> humidity,
                           soilMoisture |-> soilMoisture, rainfall |-> totalRainfall])
        a == adjustCRIBasedOnDiagnosis(c.cri, imageDiagnosis)
    IN  [dailyRecord EXCEPT
            !.readings = readings,
            !.temperature = temperature,
            !.humidity = humidity,
            !.soilMoisture = soilMoisture,
            !.rainfall = totalRainfall,
            !.cri = a.adjustedCRI,
            !.riskLevel = a.riskLevel,
            !.blightType = a.blightType]

\* Lines 692-719: the document created for the first reading of the day.
newDailyRecord(date, r, locationId, coordinates, farmerId, imageDiagnosis) ==
    LET c == calculateCRI([temperature |-> r.temperature, humidity |-> r.humidity,
                           soilMoisture |-> r.soilMoisture, rainfall |-> r.rainfall])
        a == adjustCRIBasedOnDiagnosis(c.cri, imageDiagnosis)
    IN  [date |-> date,
         readings |-> <<r>>,
         temperature |-> r.temperature,
         humidity |-> r.humidity,
         rainfall |-> r.rainfall,
         soilMoisture |-> r.soilMoisture,
         locationId |-> IF locationId = "undefined" THEN DefaultLocation
                        ELSE locationId,
         coordinates |-> coordinates,
         farmerId |-> farmerId,
         cri |-> a.adjustedCRI,
         riskLevel |-> a.riskLevel,
         blightType |-> a.blightType,
         percentageChanges |-> EmptyPercentageChanges]

\* The paths save() sends with $set: those whose value differs from the one
\* loaded. The pushed reading goes with $push, onto the stored array.
SetPaths ==
    {"temperature", "humidity", "soilMoisture", "rainfall", "cri", "riskLevel",
     "blightType", "percentageChanges"}

saveLoaded(stored, loaded, doc, r) ==
    [f \in DOMAIN stored |->
        IF f = "readings" THEN Append(stored.readings, r)
        ELSE IF f \in SetPaths /\ doc[f] # loaded[f] THEN doc[f]
        ELSE stored[f]]

----------------------------------------------------------------------------
(* The alert rules, utils/notificationTriggers.js, and the dispatcher      *)
(* sendNotification, utils/notificationService.js.                         *)

\* What a sendNotification call meets: the farmer exists and has the alerts
\* enabled, has them disabled, does not exist, or the Notification cannot be
\* saved.
Deliveries == {"ok", "muted", "noFarmer", "saveFails"}

\* sendNotification, lines 38-95: the call with its outcome. A missing farmer
\* (line 51) and a failed save (line 72) are rethrown at line 93.
sendNotification(farmerId, title, type, priority, data) ==
    [farmerId |-> farmerId, title |-> title, type |-> type,
     priority |-> priority, data |-> data,
     outcome |-> CASE delivery = "noFarmer" -> "threw"
                   [] delivery = "muted" -> "skipped"
                   [] delivery = "saveFails" -> "threw"
                   [] OTHER -> "saved"]

\* A trigger that returned without calling sendNotification.
NoDispatch == [sent |-> <<>>, rejected |-> FALSE]

\* A trigger whose catch block were missing: the dispatcher's error leaves it.
dispatchUncaught(call) == [sent |-> <<call>>, rejected |-> call.outcome = "threw"]

\* try { await sendNotification(...) } catch (error) { console.error(...) },
\* lines 10, 88-91 and 100, 158-161.
dispatchCaught(call) == [sent |-> <<call>>, rejected |-> FALSE]

\* Every risk level sent with the default priority.
blightPriorityDefault(riskLevel) == "medium"

\* Lines 20-22.
blightPriority(riskLevel) ==
    IF riskLevel = "Critical" THEN "urgent"
    ELSE IF riskLevel = "High" THEN "high"
    ELSE "medium"

\* triggerBlightRiskNotification, lines 9-92.
triggerBlightRiskNotification(environmentalData) ==
    IF environmentalData.farmerId = NoFarmer THEN NoDispatch
    ELSE IF environmentalData.riskLevel \notin {"Medium", "High", "Critical"}
    THEN NoDispatch
    ELSE dispatchCaught(
             sendNotification(environmentalData.farmerId,
                              <<environmentalData.riskLevel, environmentalData.blightType>>,
                              "blight", blightPriority(environmentalData.riskLevel),
                              [cri |-> environmentalData.cri,
                               date |-> environmentalData.date]))

\* A change of percentageChanges.daily, undefined when the object is empty.
Undefined == "undefined"
changeOf(changes, metric) ==
    IF changes = NoChanges THEN Undefined ELSE changes[metric]

\* `changes.m && ...`: an undefined or zero change is falsy.
Truthy(change) == change # Undefined /\ change # R(0)

\* The rainfall test with the inclusive comparison of the other metrics.
rainfallCrossedInclusive(change) == Truthy(change) /\ RGe(change, R(100))

\* Line 125.
rainfallCrossed(change) == Truthy(change) /\ RGt(change, R(100))

\* Lines 109, 117, 131.
magnitudeCrossed(change, threshold) ==
    Truthy(change) /\ RGe(RAbs(change), R(threshold))

\* Lines 106-137: the metrics pushed onto significantChanges.
significantChanges(changes) ==
    {m \in {"temperature"} : magnitudeCrossed(changeOf(changes, m), 15)}
    \cup {m \in {"humidity"} : magnitudeCrossed(changeOf(changes, m), 20)}
    \cup {m \in {"rainfall"} : rainfallCrossed(changeOf(changes, m))}
    \cup {m \in {"soilMoisture"} : magnitudeCrossed(changeOf(changes, m), 25)}

\* triggerWeatherChangeNotification, lines 99-162.
triggerWeatherChangeNotification(environmentalData) ==
    IF environmentalData.farmerId = NoFarmer THEN NoDispatch
    ELSE LET changes == environmentalData.percentageChanges.daily
             listed == significantChanges(changes)
         IN  IF listed = {} THEN NoDispatch
             ELSE dispatchCaught(
                      sendNotification(environmentalData.farmerId, listed,
                                       "weather", "medium",
                                       [changes |-> changes,
                                        date |-> environmentalData.date]))

\* Lines 681-686 / 728-733: Promise.all of the two triggers, when the call
\* was given a farmerId.
triggerNotifications(farmerId, dailyRecord) ==
    IF farmerId = NoFarmer THEN <<>>
    ELSE <<triggerBlightRiskNotification(dailyRecord),
           triggerWeatherChangeNotification(dailyRecord)>>

RECURSIVE SentBy(_)
SentBy(results) ==
    IF results = <<>> THEN EmptyBag
    ELSE (IF Head(results).sent = <<>> THEN EmptyBag
          ELSE SetToBag({Head(results).sent[1]}))
         (+) SentBy(Tail(results))

----------------------------------------------------------------------------
(* addEnvironmentalReading as a process: one action per stretch of code    *)
(* between two awaits.                                                     *)

MaxCalls == 3

FarmerIds == {"farmerA"}
Coordinates == {"kampala", "gulu"}

\* extractWeatherData, utils/dataServices.js line 63: locationId is the name
\* of the city of the weather response.
cityOf(coordinates) == IF coordinates = "kampala" THEN "Kampala" ELSE "Gulu"

Reading(t, h, r, s) ==
    [temperature |-> t, humidity |-> h, rainfall |-> r, soilMoisture |-> s]

\* The validated readings the callers hand over: a neutral one at 0 degrees,
\* one whose score rounds up to 50.00, an Early Blight one (cri 30) and a
\* Late Blight one (cri 71.5).
FoldReadings ==
    {Reading(R(0), R(70), R(0), R(50)),
     Reading(R(20), R(70), R(3), Frac(3997, 100)),
     Reading(R(29), R(0), R(0), R(24)),
     Reading(R(10), R(95), R(3), R(80))}

\* What is left of a handler's local document once it has returned.
NoDocument == [released |-> TRUE]

CallsAt(pcs) == {c \in DOMAIN calls : calls[c].pc \in pcs}

\* Lines 577-672: the call starts, its query is answered and the reading is
\* folded into the loaded document, or into a new one.
FoldStart(r, locationId, farmerId, coordinates) ==
    /\ LET found == findDailyRecord(db, today, coordinates, farmerId)
           call(docId, loaded, doc) ==
               [pc |-> "found", farmerId |-> farmerId, coordinates |-> coordinates,
                reading |-> r, docId |-> docId, loaded |-> loaded, doc |-> doc]
       IN  IF found = {}
           THEN LET doc == newDailyRecord(today, r, locationId, coordinates,
                                          farmerId, NoDiagnosis)
                IN  calls' = Append(calls, call(0, doc, doc))
           ELSE \E i \in found :
                    calls' = Append(calls, call(i, db[i], foldInto(db[i], r, NoDiagnosis)))
    /\ UNCHANGED <<scheduler, today, db, diags, reqs>>
    /\ UNCHANGED pureVars
    /\ UNCHANGED <<delivery, notifications>>

\* A call with a reading that fetchAndProcessData returned: its locationId is
\* the city the weather service names for the coordinates.
FoldFind(r, farmerId, coordinates) ==
    /\ Len(calls) < MaxCalls
    /\ FoldStart(r, cityOf(coordinates), farmerId, coordinates)
    /\ UNCHANGED runs

\* Lines 675 / 722: await calculateAndUpdatePercentageChanges(dailyRecord).
FoldPercentages(c) ==
    /\ calls[c].pc = "found"
    /\ \E p \in calculateAndUpdatePercentageChanges(calls[c].doc, db) :
          calls' = [calls EXCEPT ![c].doc.percentageChanges = p, ![c].pc = "changes"]
    /\ UNCHANGED <<scheduler, today, db, diags, reqs>>
    /\ UNCHANGED pureVars
    /\ UNCHANGED <<delivery, notifications, runs>>

\* Lines 678 / 725: await dailyRecord.save().
FoldSave(c) ==
    /\ calls[c].pc = "changes"
    /\ db' = IF calls[c].docId = 0 THEN Append(db, calls[c].doc)
             ELSE [db EXCEPT ![calls[c].docId] =
                       saveLoaded(@, calls[c].loaded, calls[c].doc, calls[c].reading)]
    /\ calls' = [calls EXCEPT ![c].pc = "saved",
                              ![c].docId = IF @ = 0 THEN Len(db) + 1 ELSE @]
    /\ UNCHANGED <<scheduler, today, diags, reqs>>
    /\ UNCHANGED pureVars
    /\ UNCHANGED <<delivery, notifications, runs>>

\* Lines 680-689 / 727-736: the notifications are awaited and the document
\* is returned.
FoldReturn(c) ==
    /\ calls[c].pc = "saved"
    /\ LET results == triggerNotifications(calls[c].farmerId, calls[c].doc)
           rejected == \E k \in DOMAIN results : results[k].rejected
       IN  /\ notifications' = notifications (+) SentBy(results)
           /\ calls' = [calls EXCEPT
                  ![c].pc = IF rejected THEN "threw" ELSE "returned",
                  ![c].loaded = NoDocument, ![c].doc = NoDocument]
    /\ UNCHANGED <<scheduler, today, db, diags, reqs>>
    /\ UNCHANGED pureVars
    /\ UNCHANGED <<delivery, runs>>

InitStore ==
    /\ reading \in {Reading(R(22), R(70), R(0), R(50))}
    /\ prevReading = reading
    /\ criResult = NoResult
    /\ prevResult = NoResult
    /\ cpc = "input"
    /\ raw = NoResult
    /\ cleaned = NoResult
    /\ StoreEmpty

FoldNext ==
    \/ \E r \in FoldReadings, f \in FarmerIds \cup {NoFarmer}, xy \in Coordinates :
          FoldFind(r, f, xy)
    \/ \E c \in DOMAIN calls : FoldPercentages(c)
    \/ \E c \in DOMAIN calls : FoldSave(c)
    \/ \E c \in DOMAIN calls : FoldReturn(c)

SpecFold == InitStore /\ [][FoldNext]_vars

\* The same calls made one after the other: a call starts only when every
\* earlier one has returned.
FoldFindAlone(r, farmerId, coordinates) ==
    /\ \A c \in DOMAIN calls : calls[c].pc = "returned"
    /\ FoldFind(r, farmerId, coordinates)

SeqNext ==
    \/ \E r \in FoldReadings, f \in FarmerIds \cup {NoFarmer}, xy \in Coordinates :
          FoldFindAlone(r, f, xy)
    \/ \E c \in DOMAIN calls : FoldPercentages(c)
    \/ \E c \in DOMAIN calls : FoldSave(c)
    \/ \E c \in DOMAIN calls : FoldReturn(c)

SpecSeq == InitStore /\ [][SeqNext]_vars

----------------------------------------------------------------------------
(* The diagnosis controller, controllers/diagnosisController.js.           *)

MaxDiagnoses == 1
MaxRequests == 1
MaxFolds == 2
\* The handlers (folds, image validations, diagnosis requests) of one run.
MaxHandlers == 3

Handlers == Len(calls) + Len(diags) + Len(reqs)

Conditions == {"Healthy", "Early Blight", "Late Blight", "Unknown"}
Confidences == Nums({0, 10, 80, 100})

\* Lines 170-175.
criLikelihoodOf(currentCRI) ==
    IF RLt(currentCRI, R(50)) THEN "Early Blight"
    ELSE IF RGt(currentCRI, R(50)) THEN "Late Blight"
    ELSE "Healthy"

\* The same test without the guard on "Unknown" (line 179).
contradictsUnguarded(criLikelihood, imageDiagnosis) ==
    \/ criLikelihood = "Early Blight" /\ imageDiagnosis = "Late Blight"
    \/ criLikelihood = "Late Blight" /\ imageDiagnosis = "Early Blight"
    \/ criLikelihood # "Healthy" /\ imageDiagnosis = "Healthy"
    \/ criLikelihood = "Healthy" /\ imageDiagnosis # "Healthy"

\* Lines 179-187: the test guarding the adjustment.
contradicts(criLikelihood, imageDiagnosis) ==
    /\ imageDiagnosis # "Unknown"
    /\ \/ criLikelihood = "Early Blight" /\ imageDiagnosis = "Late Blight"
       \/ criLikelihood = "Late Blight" /\ imageDiagnosis = "Early Blight"
       \/ criLikelihood # "Healthy" /\ imageDiagnosis = "Healthy"
       \/ criLikelihood = "Healthy" /\ imageDiagnosis # "Healthy"

\* The confidence as a fraction, without the ten points it scales.
adjustmentFactorUnscaled(diagnosisConfidence) ==
    RDiv(diagnosisConfidence, R(100))

\* Line 191.
adjustmentFactorOf(diagnosisConfidence) ==
    RMul(RDiv(diagnosisConfidence, R(100)), R(10))

\* Lines 193-223: the adjusted CRI of a contradiction.
adjustCRI(currentCRI, imageDiagnosis, diagnosisConfidence) ==
    LET criLikelihood == criLikelihoodOf(currentCRI)
        adjustmentFactor == adjustmentFactorOf(diagnosisConfidence)
    IN  IF criLikelihood = "Early Blight" /\ imageDiagnosis = "Late Blight"
        THEN RMin(R(100), RAdd(currentCRI, adjustmentFactor))
        ELSE IF criLikelihood = "Late Blight" /\ imageDiagnosis = "Early Blight"
        THEN RMax(R(1), RSub(currentCRI, adjustmentFactor))
        ELSE IF criLikelihood # "Healthy" /\ imageDiagnosis = "Healthy"
        THEN RMax(R(1),
                  RMin(R(100),
                       RAdd(currentCRI,
                            RMul(RMul(RSub(R(50), currentCRI), adjustmentFactor),
                                 Frac(1, 2)))))
        ELSE IF criLikelihood = "Healthy" /\ imageDiagnosis # "Healthy"
        THEN IF imageDiagnosis = "Early Blight"
             THEN RMax(R(1), RSub(currentCRI, adjustmentFactor))
             ELSE IF imageDiagnosis = "Late Blight"
             THEN RMin(R(100), RAdd(currentCRI, adjustmentFactor))
             ELSE currentCRI
        ELSE currentCRI

\* EnvironmentalData.findOne({ farmerId }).sort({ date: -1 }): the documents
\* it may return (any of those of the latest date).
findLastEnvironmentalData(store, farmerId) ==
    {i \in DOMAIN store :
        /\ store[i].farmerId = farmerId
        /\ \A j \in DOMAIN store :
              store[j].farmerId = farmerId => store[j].date <= store[i].date}

\* validatePlantImage, lines 63-76: the image passed the content check and
\* was uploaded; the Diagnosis is created "validated".
CreateDiagnosis(farmerId) ==
    /\ diags' = Append(diags,
                       [farmerId |-> farmerId, condition |-> "Pending",
                        confidence |-> R(0), cri |-> R(0), status |-> "validated",
                        environmentalDataId |-> 0])
    /\ UNCHANGED <<scheduler, today, db, calls, reqs>>
    /\ UNCHANGED pureVars
    /\ UNCHANGED <<delivery, notifications, runs>>

ValidatePlantImage(farmerId) ==
    /\ Len(diags) < MaxDiagnoses
    /\ Handlers < MaxHandlers
    /\ CreateDiagnosis(farmerId)

NoRequest ==
    [pc |-> "pending", validationId |-> 0, user |-> NoFarmer, envId |-> 0,
     currentCRI |-> R(0), condition |-> "Pending", confidence |-> R(0),
     adjustedCRI |-> R(0), farmerMessage |-> FALSE, status |-> 0]

\* A request once answered: its locals are gone, the response stays.
Answer(status) == [NoRequest EXCEPT !.pc = "answered", !.status = status]

\* diagnosePlant, lines 99-116: Diagnosis.findOne({ _id, farmerId, status }).
FindPending(validationId, user) ==
    /\ validationId \in DOMAIN diags
    /\ reqs' = Append(reqs,
          IF diags[validationId].farmerId = user
             /\ diags[validationId].status = "validated"
          THEN [NoRequest EXCEPT !.validationId = validationId, !.user = user]
          ELSE [Answer(404) EXCEPT !.validationId = validationId, !.user = user])
    /\ UNCHANGED <<scheduler, today, db, calls, diags>>
    /\ UNCHANGED pureVars
    /\ UNCHANGED <<delivery, notifications, runs>>

DiagFindPending(validationId, user) ==
    /\ Len(reqs) < MaxRequests
    /\ Handlers < MaxHandlers
    /\ FindPending(validationId, user)

\* Lines 121-143: the image is fetched, then the farmer's latest
\* EnvironmentalData document is read.
DiagReadEnvironment(q) ==
    /\ reqs[q].pc = "pending"
    /\ LET found == findLastEnvironmentalData(db, reqs[q].user)
       IN  IF found = {}
           THEN reqs' = [reqs EXCEPT ![q] =
                            [Answer(404) EXCEPT !.validationId = reqs[q].validationId,
                                                !.user = reqs[q].user]]
           ELSE \E i \in found :
                    reqs' = [reqs EXCEPT ![q].pc = "read", ![q].envId = i,
                                         ![q].currentCRI = db[i].cri,
                                         ![q].adjustedCRI = db[i].cri]
    /\ UNCHANGED <<scheduler, today, db, calls, diags>>
    /\ UNCHANGED pureVars
    /\ UNCHANGED <<delivery, notifications, runs>>

\* Lines 145-224: the classifier answers; the contradiction test and the
\* adjustment are computed.
DiagClassify(q, condition, confidence) ==
    /\ reqs[q].pc = "read"
    /\ LET clash == contradicts(criLikelihoodOf(reqs[q].currentCRI), condition)
       IN  reqs' = [reqs EXCEPT
              ![q].pc = IF clash THEN "adjusted" ELSE "agreed",
              ![q].condition = condition,
              ![q].confidence = confidence,
              ![q].farmerMessage = clash,
              ![q].adjustedCRI =
                  IF clash THEN adjustCRI(reqs[q].currentCRI, condition, confidence)
                  ELSE @]
    /\ UNCHANGED <<scheduler, today, db, calls, diags>>
    /\ UNCHANGED pureVars
    /\ UNCHANGED <<delivery, notifications, runs>>

\* Lines 310-316: fetching the image or classifying it failed.
DiagFails(q) ==
    /\ reqs[q].pc = "read"
    /\ reqs' = [reqs EXCEPT ![q] =
                    [Answer(500) EXCEPT !.validationId = reqs[q].validationId,
                                        !.user = reqs[q].user]]
    /\ UNCHANGED <<scheduler, today, db, calls, diags>>
    /\ UNCHANGED pureVars
    /\ UNCHANGED <<delivery, notifications, runs>>

\* An update that sets the classification of the new cri along with it.
updateOneCriAndBands(store, id, cri) ==
    [store EXCEPT ![id].cri = cri,
                  ![id].riskLevel = classifyRisk(cri),
                  ![id].blightType = classifyBlight(cri)]

\* EnvironmentalData.updateOne({ _id: id }, { $set: { cri } }).
updateOneCri(store, id, cri) == [store EXCEPT ![id].cri = cri]

\* Lines 227-230: the adjusted cri is written to the document that was read.
DiagUpdateEnvironment(q) ==
    /\ reqs[q].pc = "adjusted"
    /\ db' = updateOneCri(db, reqs[q].envId, reqs[q].adjustedCRI)
    /\ reqs' = [reqs EXCEPT ![q].pc = "updated"]
    /\ UNCHANGED <<scheduler, today, calls, diags>>
    /\ UNCHANGED pureVars
    /\ UNCHANGED <<delivery, notifications, runs>>

\* Lines 235-309: pendingDiagnosis.save(), then the notification, the email
\* and the 200 response.
DiagSave(q) ==
    /\ reqs[q].pc \in {"agreed", "updated"}
    /\ diags' = [diags EXCEPT ![reqs[q].validationId] =
                    [@ EXCEPT !.condition = reqs[q].condition,
                              !.confidence = reqs[q].confidence,
                              !.cri = reqs[q].currentCRI,
                              !.status = "completed",
                              !.environmentalDataId = reqs[q].envId]]
    /\ reqs' = [reqs EXCEPT ![q] =
                    [Answer(200) EXCEPT !.validationId = reqs[q].validationId,
                                        !.user = reqs[q].user,
                                        !.farmerMessage = reqs[q].farmerMessage,
                                        !.adjustedCRI = reqs[q].adjustedCRI]]
    /\ UNCHANGED <<scheduler, today, db, calls>>
    /\ UNCHANGED pureVars
    /\ UNCHANGED <<delivery, notifications, runs>>

\* A fold of the system with diagnoses: the requests of the farmers at their
\* own location.
FoldFindFew(r, farmerId, coordinates) ==
    /\ Len(calls) < MaxFolds
    /\ Handlers < MaxHandlers
    /\ FoldFind(r, farmerId, coordinates)

Next ==
    \/ \E r \in FoldReadings, f \in FarmerIds : FoldFindFew(r, f, "kampala")
    \/ \E c \in DOMAIN calls : FoldPercentages(c)
    \/ \E c \in DOMAIN calls : FoldSave(c)
    \/ \E c \in DOMAIN calls : FoldReturn(c)
    \/ \E f \in FarmerIds : ValidatePlantImage(f)
    \/ \E v \in DOMAIN diags, f \in FarmerIds : DiagFindPending(v, f)
    \/ \E q \in DOMAIN reqs : DiagReadEnvironment(q)
    \/ \E q \in DOMAIN reqs, k \in Conditions, p \in Confidences : DiagClassify(q, k, p)
    \/ \E q \in DOMAIN reqs : DiagFails(q)
    \/ \E q \in DOMAIN reqs : DiagUpdateEnvironment(q)
    \/ \E q \in DOMAIN reqs : DiagSave(q)

Spec == InitStore /\ [][Next]_vars

----------------------------------------------------------------------------
(* The reconciler on a day that already has its record: several photos,    *)
(* several diagnosePlant requests and one more reading.                    *)

MaxPhotos == 2
MaxAsks == 2
MaxRefolds == 1

\* The day's first reading: an Early Blight one (cri 30) or a Late Blight
\* one (cri 71.5).
FirstReadings ==
    {Reading(R(29), R(0), R(0), R(24)), Reading(R(10), R(95), R(3), R(80))}

\* The store after the day's first reading of farmerA has been folded and
\* its handler has returned.
InitFolded ==
    /\ reading \in {Reading(R(22), R(70), R(0), R(50))}
    /\ prevReading = reading
    /\ criResult = NoResult
    /\ prevResult = NoResult
    /\ cpc = "input"
    /\ raw = NoResult
    /\ cleaned = NoResult
    /\ today = StartDay
    /\ \E r \in FirstReadings :
          db = <<newDailyRecord(StartDay, r, cityOf("kampala"), "kampala",
                                   "farmerA", NoDiagnosis)>>
    /\ calls = <<>>
    /\ diags = <<>>
    /\ reqs = <<>>
    /\ delivery = "ok"
    /\ notifications = EmptyBag
    /\ runs = <<>>
    /\ scheduler = SchedulerOff

ValidateAnotherImage(farmerId) ==
    /\ Len(diags) < MaxPhotos
    /\ CreateDiagnosis(farmerId)

DiagFindPendingAgain(validationId, user) ==
    /\ Len(reqs) < MaxAsks
    /\ FindPending(validationId, user)

FoldFindOnce(r, farmerId, coordinates) ==
    /\ Len(calls) < MaxRefolds
    /\ FoldFind(r, farmerId, coordinates)

DiagNext ==
    \/ \E r \in FoldReadings, f \in FarmerIds : FoldFindOnce(r, f, "kampala")
    \/ \E c \in DOMAIN calls : FoldPercentages(c)
    \/ \E c \in DOMAIN calls : FoldSave(c)
    \/ \E c \in DOMAIN calls : FoldReturn(c)
    \/ \E f \in FarmerIds : ValidateAnotherImage(f)
    \/ \E v \in DOMAIN diags, f \in FarmerIds : DiagFindPendingAgain(v, f)
    \/ \E q \in DOMAIN reqs : DiagReadEnvironment(q)
    \/ \E q \in DOMAIN reqs, k \in Conditions, p \in Confidences : DiagClassify(q, k, p)
    \/ \E q \in DOMAIN reqs : DiagFails(q)
    \/ \E q \in DOMAIN reqs : DiagUpdateEnvironment(q)
    \/ \E q \in DOMAIN reqs : DiagSave(q)

SpecDiag == InitFolded /\ [][DiagNext]_vars

----------------------------------------------------------------------------
(* The alert rules at work: yesterday's record is stored, today's readings *)
(* are folded one call after the other and each call dispatches.           *)

MaxAlertFolds == 1

Yesterday == Reading(R(20), R(50), R(1), R(40))

\* Today's readings: one metric at a time at, just below and beyond its
\* threshold against yesterday's value, all four beyond, and four readings
\* whose cri is of Medium, High (Early and Late) and Critical risk; the last
\* has a soil sensor value far out of range.
AlertReadings ==
    {Reading(t, R(50), R(1), R(40)) : t \in {R(23), Frac(2298, 100), R(17), R(20)}}
    \cup {Reading(R(20), h, R(1), R(40)) : h \in {R(60), Frac(5995, 100), R(40)}}
    \cup {Reading(R(20), R(50), r, R(40)) : r \in {R(2), Frac(201, 100), R(0)}}
    \cup {Reading(R(20), R(50), R(1), m) : m \in {R(50), Frac(4996, 100), R(30)}}
    \cup {Reading(R(26), R(70), R(3), R(60)),
          Reading(R(29), R(0), R(0), R(24)),
          Reading(R(29), R(0), R(0), R(0)),
          Reading(R(10), R(95), R(3), R(80)),
          Reading(R(10), R(95), R(3), R(500))}

InitYesterday ==
    /\ reading \in {Reading(R(22), R(70), R(0), R(50))}
    /\ prevReading = reading
    /\ criResult = NoResult
    /\ prevResult = NoResult
    /\ cpc = "input"
    /\ raw = NoResult
    /\ cleaned = NoResult
    /\ today = StartDay
    /\ db = <<newDailyRecord(StartDay - 1, Yesterday, cityOf("kampala"),
                             "kampala", "farmerA", NoDiagnosis)>>
    /\ calls = <<>>
    /\ diags = <<>>
    /\ reqs = <<>>
    /\ delivery \in Deliveries
    /\ notifications = EmptyBag
    /\ runs = <<>>
    /\ scheduler = SchedulerOff

FoldFindToday(r, farmerId, coordinates) ==
    /\ Len(calls) < MaxAlertFolds
    /\ FoldFindAlone(r, farmerId, coordinates)

AlertNext ==
    \/ \E r \in AlertReadings, f \in FarmerIds \cup {NoFarmer} :
          FoldFindToday(r, f, "kampala")
    \/ \E c \in DOMAIN calls : FoldPercentages(c)
    \/ \E c \in DOMAIN calls : FoldSave(c)
    \/ \E c \in DOMAIN calls : FoldReturn(c)

SpecAlert == InitYesterday /\ [][AlertNext]_vars

----------------------------------------------------------------------------
(* The percentage changes at work: records of earlier days are stored, by  *)
(* the farmer, by another farmer or at another location, and today's       *)
(* readings are folded by calls that may overlap.                          *)

MaxChangeFolds == 2

OtherFarmer == "farmerB"

\* The record a first reading r of `date` left for the farmer at Kampala.
EarlierRecord(date, r, farmerId) ==
    newDailyRecord(date, r, cityOf("kampala"), "kampala", farmerId, NoDiagnosis)

\* What the collection holds of the earlier days: nothing; the day before,
\* a week before and the day setMonth(-1) gives, for the farmer; the day
\* before for another farmer; for both; the day before at another place; and
\* the same day of the month before, which setMonth(-1) of the 31st misses.
EarlierDays ==
    {<<>>,
     <<EarlierRecord(StartDay - 1, Reading(R(20), R(50), R(0), R(40)), "farmerA")>>,
     <<EarlierRecord(StartDay - 7, Reading(R(30), R(60), R(3), R(45)), "farmerA")>>,
     <<EarlierRecord(setMonthBack(StartDay), Reading(R(30), R(60), R(3), R(45)),
                     "farmerA")>>,
     <<EarlierRecord(StartDay - 1, Reading(R(30), R(60), R(3), R(45)), OtherFarmer)>>,
     <<EarlierRecord(StartDay - 1, Reading(R(20), R(50), R(0), R(40)), "farmerA"),
       EarlierRecord(StartDay - 1, Reading(R(30), R(60), R(3), R(45)), OtherFarmer)>>,
     <<newDailyRecord(StartDay - 1, Reading(R(30), R(60), R(3), R(45)),
                      cityOf("gulu"), "gulu", "farmerA", NoDiagnosis)>>,
     <<EarlierRecord(StartDay - 31, Reading(R(30), R(60), R(3), R(45)), "farmerA")>>}

ChangeReadings ==
    {Reading(R(24), R(50), R(3), R(40)), Reading(R(20), R(50), R(0), R(30))}

InitEarlierDays ==
    /\ reading \in {Reading(R(22), R(70), R(0), R(50))}
    /\ prevReading = reading
    /\ criResult = NoResult
    /\ prevResult = NoResult
    /\ cpc = "input"
    /\ raw = NoResult
    /\ cleaned = NoResult
    /\ today = StartDay
    /\ db \in EarlierDays
    /\ calls = <<>>
    /\ diags = <<>>
    /\ reqs = <<>>
    /\ delivery = "ok"
    /\ notifications = EmptyBag
    /\ runs = <<>>
    /\ scheduler = SchedulerOff

FoldFindChange(r, farmerId, coordinates) ==
    /\ Len(calls) < MaxChangeFolds
    /\ FoldFind(r, farmerId, coordinates)

ChangeNext ==
    \/ \E r \in ChangeReadings, f \in FarmerIds \cup {NoFarmer} :
          FoldFindChange(r, f, "kampala")
    \/ \E c \in DOMAIN calls : FoldPercentages(c)
    \/ \E c \in DOMAIN calls : FoldSave(c)
    \/ \E c \in DOMAIN calls : FoldReturn(c)

SpecChange == InitEarlierDays /\ [][ChangeNext]_vars

----------------------------------------------------------------------------
(* validateEnvironmentalData, utils/dataValidator.js, and the estimate of  *)
(* utils/dataServices.js it falls back on. A field of a raw reading is a   *)
(* JavaScript value: a number, NaN, null or undefined (the field is not    *)
(* there).                                                                 *)

Num(v) == [kind |-> "number", value |-> v]
JSNaN == [kind |-> "NaN", value |-> R(0)]
JSNull == [kind |-> "null", value |-> R(0)]
JSUndefined == [kind |-> "undefined", value |-> R(0)]

\* x === undefined || x === null
isMissing(x) == x.kind \in {"undefined", "null"}

\* x || 0: undefined, null, NaN and 0 are falsy.
orZero(x) == IF x.kind = "number" /\ x.value # R(0) THEN x ELSE Num(R(0))

\* The values Math.random() is sampled at: it returns a number of [0, 1).
RandomDraws == {R(0), Frac(9, 10)}

\* estimateSoilMoisture(rainfall) for the draws u and v of its two calls of
\* Math.random(). Arithmetic on NaN or undefined gives NaN, and Math.max and
\* Math.min return NaN for a NaN argument; null counts as 0.
estimateSoilMoisture(rainfall, u, v) ==
    IF rainfall.kind \in {"NaN", "undefined"} THEN JSNaN
    ELSE LET baseMoisture == RAdd(R(40), RMul(u, R(10)))
             rainfallEffect == RMul(rainfall.value, RAdd(R(2), RMul(v, R(3))))
         IN  Num(RMin(R(100), RMax(R(0), RAdd(baseMoisture, rainfallEffect))))

\* validateEnvironmentalData(data), for the draws u and v of the estimate.
validateEnvironmentalData(data, u, v) ==
    LET temperatureMissing == isMissing(data.temperature)
        humidityMissing == isMissing(data.humidity)
        soilMoistureMissing == isMissing(data.soilMoisture)
        errors ==
            (IF temperatureMissing THEN <<"Temperature data missing">> ELSE <<>>)
            \o (IF humidityMissing THEN <<"Humidity data missing">> ELSE <<>>)
            \o (IF soilMoistureMissing
                THEN <<"Soil moisture data missing, will use estimate">> ELSE <<>>)
        cleanedData ==
            [data EXCEPT
                !.temperature = IF temperatureMissing THEN Num(R(22)) ELSE @,
                !.humidity = IF humidityMissing THEN Num(R(70)) ELSE @,
                !.soilMoisture =
                    IF soilMoistureMissing
                    THEN estimateSoilMoisture(orZero(data.rainfall), u, v)
                    ELSE @]
    IN  [cleanedData |-> cleanedData, isValid |-> Len(errors) = 0,
         errors |-> errors]

\* The raw readings: each field a number in range, a number out of range,
\* NaN, null or undefined.
RawTemperatures == {Num(R(25)), Num(R(22)), JSNaN, JSNull, JSUndefined}
RawHumidities == {Num(R(60)), Num(R(70)), Num(R(150)), Num(R(-5)), JSNaN,
                  JSNull, JSUndefined}
RawRainfalls == {Num(R(0)), Num(R(4)), Num(R(40)), Num(R(-3)), JSNaN, JSNull,
                 JSUndefined}
RawSoilMoistures == {Num(R(35)), JSNaN, JSNull, JSUndefined}

RawReadings ==
    [temperature : RawTemperatures, humidity : RawHumidities,
     rainfall : RawRainfalls, soilMoisture : RawSoilMoistures]

NotValidated ==
    [cleanedData |-> Reading(JSUndefined, JSUndefined, JSUndefined, JSUndefined),
     isValid |-> FALSE, errors |-> <<>>]

InitValidate ==
    /\ raw \in RawReadings
    /\ cleaned = NotValidated
    /\ cpc = "input"
    /\ reading = Reading(R(22), R(70), R(0), R(50))
    /\ prevReading = reading
    /\ criResult = NoResult
    /\ prevResult = NoResult
    /\ StoreEmpty

\* const { cleanedData, isValid, errors } = validateEnvironmentalData(raw)
CallValidate ==
    /\ cpc = "input"
    /\ \E u \in RandomDraws, v \in RandomDraws :
          cleaned' = validateEnvironmentalData(raw, u, v)
    /\ cpc' = "validated"
    /\ UNCHANGED <<reading, criResult, prevReading, prevResult, raw>>
    /\ UNCHANGED storeVars

ValidateNext == CallValidate

SpecValidate == InitValidate /\ [][ValidateNext]_vars

----------------------------------------------------------------------------
(* estimateSoilMoisture as a state machine: two rainfalls are drawn and    *)
(* the function is called on each, in the version of utils/dataServices.js *)
(* or in the version that guards its argument.                             *)

\* estimateSoilMoisture of the second copy of the module: an undefined, null
\* or NaN rainfall counts as 0, the estimate is 40 + 2 * rainfall capped to
\* [0, 100], and 50 if that is NaN.
estimateSoilMoistureGuarded(rainfall) ==
    LET r == IF rainfall.kind \in {"undefined", "null", "NaN"} THEN R(0)
             ELSE rainfall.value
    IN  Num(RMin(R(100), RMax(R(0), RAdd(R(40), RMul(r, R(2))))))

EstimateInputs ==
    {Num(R(0)), Num(R(1)), Num(R(2)), Num(R(30)), Num(R(50)),
     JSNaN, JSUndefined, JSNull}

NotEstimated == [version |-> "none", first |-> JSUndefined, second |-> JSUndefined]

InitEstimate ==
    /\ raw \in [first : EstimateInputs, second : EstimateInputs]
    /\ cleaned = NotEstimated
    /\ cpc = "input"
    /\ reading = Reading(R(22), R(70), R(0), R(50))
    /\ prevReading = reading
    /\ criResult = NoResult
    /\ prevResult = NoResult
    /\ StoreEmpty

\* estimateSoilMoisture(raw.first); estimateSoilMoisture(raw.second), with
\* the function of utils/dataServices.js.
CallEstimate ==
    /\ cpc = "input"
    /\ \E u1 \in RandomDraws, v1 \in RandomDraws, u2 \in RandomDraws,
          v2 \in RandomDraws :
          cleaned' = [version |-> "utils/dataServices.js",
                      first |-> estimateSoilMoisture(raw.first, u1, v1),
                      second |-> estimateSoilMoisture(raw.second, u2, v2)]
    /\ cpc' = "estimated"
    /\ UNCHANGED <<reading, criResult, prevReading, prevResult, raw>>
    /\ UNCHANGED storeVars

\* The same calls with the function that guards its argument.
CallEstimateGuarded ==
    /\ cpc = "input"
    /\ cleaned' = [version |-> "guarded",
                   first |-> estimateSoilMoistureGuarded(raw.first),
                   second |-> estimateSoilMoistureGuarded(raw.second)]
    /\ cpc' = "estimated"
    /\ UNCHANGED <<reading, criResult, prevReading, prevResult, raw>>
    /\ UNCHANGED storeVars

EstimateNext == CallEstimate \/ CallEstimateGuarded

SpecEstimate == InitEstimate /\ [][EstimateNext]_vars

----------------------------------------------------------------------------
(* executeDataCollection and fetchAndProcessData, utils/dataScheduler.js:  *)
(* one action per stretch of code between two awaits. A run fetches the    *)
(* weather and the soil moisture, validates the reading and hands it to    *)
(* addEnvironmentalReading; whatever is thrown on the way is caught and a  *)
(* reading of default values is handed over instead.                       *)

MaxRuns == 1

\* `coordinates = null`, and the coordinates used in their place.
NoCoordinates == "null"
DefaultCoordinates == "kampala"
locationCoords(coordinates) ==
    IF coordinates = NoCoordinates THEN DefaultCoordinates ELSE coordinates

\* The reading of default values of the catch block.
defaultData == Reading(R(22), R(70), R(0), R(50))

\* extractWeatherData of the responses of the weather service: temperature,
\* humidity and rainfall of the first item of the forecast.
WeatherResponses ==
    {[temperature |-> Num(R(18)), humidity |-> Num(R(90)), rainfall |-> Num(R(4))]}

\* extractSoilMoistureData of the responses of the sensor channel: field5
\* parsed, NaN when it does not parse.
SoilResponses == {Num(R(35)), JSNaN}

\* The catch of executeDataCollection with a rethrow in place of the retry.
onCollectionErrorRethrown == "rejected"

\* Where a run goes on after an error of the try block: to the retry.
onCollectionError == "caught"

\* The catch of the retry with a rethrow.
onRetryErrorRethrown == "rejected"

\* How a run ends after an error of the retry: it is logged, the function
\* returns undefined.
onRetryError == "resolved"

\* The cleaned reading as addEnvironmentalReading takes it, the soil moisture
\* set to 50 when it is NaN.
readingOf(cleanedData) ==
    Reading(cleanedData.temperature.value, cleanedData.humidity.value,
            cleanedData.rainfall.value,
            IF cleanedData.soilMoisture.kind = "NaN" THEN R(50)
            ELSE cleanedData.soilMoisture.value)

NoWeather == [temperature |-> JSUndefined, humidity |-> JSUndefined,
              rainfall |-> JSUndefined]

\* `data` before fetchAndProcessData has returned it.
NoData == Reading(R(0), R(0), R(0), R(0))

\* A run at its first await, that of fetchAndProcessData.
NewRun(coordinates, farmerId) ==
    [pc |-> "weather", coordinates |-> coordinates, farmerId |-> farmerId,
     weather |-> NoWeather, data |-> NoData, weatherFailed |-> FALSE,
     soilFailed |-> FALSE, caught |-> 0, call |-> 0]

\* executeDataCollection(coordinates, farmerId) is called: by a tick of the
\* scheduler without arguments, by a controller for its user.
ExecuteDataCollection(coordinates, farmerId) ==
    /\ Len(runs) < MaxRuns
    /\ runs' = Append(runs, NewRun(coordinates, farmerId))
    /\ UNCHANGED <<scheduler, today, db, calls, diags, reqs, delivery, notifications>>
    /\ UNCHANGED pureVars

\* await fetchWeatherData(...) answers and extractWeatherData reads it.
FetchWeather(k, w) ==
    /\ runs[k].pc = "weather"
    /\ runs' = [runs EXCEPT ![k].pc = "soil", ![k].weather = w]
    /\ UNCHANGED <<scheduler, today, db, calls, diags, reqs, delivery, notifications>>
    /\ UNCHANGED pureVars

\* fetchWeatherData or extractWeatherData throws: fetchAndProcessData logs
\* and rethrows, executeDataCollection catches.
FetchWeatherFails(k) ==
    /\ runs[k].pc = "weather"
    /\ runs' = [runs EXCEPT ![k].pc = onCollectionError,
                            ![k].weatherFailed = TRUE, ![k].caught = @ + 1]
    /\ UNCHANGED <<scheduler, today, db, calls, diags, reqs, delivery, notifications>>
    /\ UNCHANGED pureVars

\* addEnvironmentalReading is called by run k, which goes on as `run`: the
\* query of the call is answered and the call goes on, or the query throws.
CallAddEnvironmentalReading(k, run, r, locationId, queryFails) ==
    /\ runs' = [runs EXCEPT ![k] = [run EXCEPT !.call = Len(calls) + 1]]
    /\ IF queryFails
       THEN /\ calls' = Append(calls,
                   [pc |-> "threw", farmerId |-> run.farmerId,
                    coordinates |-> locationCoords(run.coordinates),
                    reading |-> r, docId |-> 0, loaded |-> NoDocument,
                    doc |-> NoDocument])
            /\ UNCHANGED <<scheduler, today, db, diags, reqs>>
            /\ UNCHANGED pureVars
            /\ UNCHANGED <<delivery, notifications>>
       ELSE FoldStart(r, locationId, run.farmerId, locationCoords(run.coordinates))

\* The soil moisture is fetched (when that fails it stays null), the combined
\* reading is validated, a NaN soil moisture is set to 50 and the reading is
\* handed to addEnvironmentalReading.
FetchSoilAndFold(k, soil, soilFails, queryFails) ==
    /\ runs[k].pc = "soil"
    /\ \E u \in RandomDraws, v \in RandomDraws :
          LET combinedData ==
                  [temperature |-> runs[k].weather.temperature,
                   humidity |-> runs[k].weather.humidity,
                   rainfall |-> runs[k].weather.rainfall,
                   soilMoisture |-> IF soilFails THEN JSNull ELSE soil]
              validated == validateEnvironmentalData(combinedData, u, v)
          IN  CallAddEnvironmentalReading(k,
                  [runs[k] EXCEPT !.pc = "folding", !.soilFailed = soilFails,
                                  !.data = readingOf(validated.cleanedData)],
                  readingOf(validated.cleanedData),
                  cityOf(locationCoords(runs[k].coordinates)), queryFails)

\* await dailyRecord.save() of addEnvironmentalReading rejects: the call
\* logs and rethrows.
FoldSaveFails(c) ==
    /\ calls[c].pc = "changes"
    /\ calls' = [calls EXCEPT ![c].pc = "threw", ![c].loaded = NoDocument,
                              ![c].doc = NoDocument]
    /\ UNCHANGED <<scheduler, today, db, diags, reqs>>
    /\ UNCHANGED pureVars
    /\ UNCHANGED <<delivery, notifications, runs>>

\* addEnvironmentalReading has returned the saved record: the run logs it
\* and returns it.
RunReturns(k) ==
    /\ runs[k].pc \in {"folding", "refolding"}
    /\ calls[runs[k].call].pc = "returned"
    /\ runs' = [runs EXCEPT ![k].pc = "resolved"]
    /\ UNCHANGED <<scheduler, today, db, calls, diags, reqs, delivery, notifications>>
    /\ UNCHANGED pureVars

\* addEnvironmentalReading has thrown in the try block: the run catches.
RunCatches(k) ==
    /\ runs[k].pc = "folding"
    /\ calls[runs[k].call].pc = "threw"
    /\ runs' = [runs EXCEPT ![k].pc = onCollectionError, ![k].caught = @ + 1]
    /\ UNCHANGED <<scheduler, today, db, calls, diags, reqs, delivery, notifications>>
    /\ UNCHANGED pureVars

\* The catch block: the reading of default values, which has no locationId,
\* is handed to addEnvironmentalReading.
RunRetries(k, queryFails) ==
    /\ runs[k].pc = "caught"
    /\ CallAddEnvironmentalReading(k, [runs[k] EXCEPT !.pc = "refolding"],
                                   defaultData, "undefined", queryFails)

\* addEnvironmentalReading has thrown in the retry: the error is logged.
RunRetryFails(k) ==
    /\ runs[k].pc = "refolding"
    /\ calls[runs[k].call].pc = "threw"
    /\ runs' = [runs EXCEPT ![k].pc = onRetryError, ![k].caught = @ + 1]
    /\ UNCHANGED <<scheduler, today, db, calls, diags, reqs, delivery, notifications>>
    /\ UNCHANGED pureVars

\* The store before the first run of the day: empty, or with the record of
\* an earlier reading of farmerA at the default coordinates.
InitCollect ==
    /\ reading = Reading(R(22), R(70), R(0), R(50))
    /\ prevReading = reading
    /\ criResult = NoResult
    /\ prevResult = NoResult
    /\ cpc = "input"
    /\ raw = NoResult
    /\ cleaned = NoResult
    /\ today = StartDay /\ calls = <<>> /\ diags = <<>> /\ reqs = <<>>
    /\ db \in {<<>>,
               <<newDailyRecord(StartDay, Reading(R(29), R(0), R(0), R(24)),
                                cityOf(DefaultCoordinates), DefaultCoordinates,
                                "farmerA", NoDiagnosis)>>}
    /\ delivery = "ok" /\ notifications = EmptyBag /\ runs = <<>>
    /\ scheduler = SchedulerOff

CollectNext ==
    \/ ExecuteDataCollection(NoCoordinates, NoFarmer)
    \/ \E xy \in Coordinates, f \in FarmerIds : ExecuteDataCollection(xy, f)
    \/ \E k \in DOMAIN runs, w \in WeatherResponses : FetchWeather(k, w)
    \/ \E k \in DOMAIN runs : FetchWeatherFails(k)
    \/ \E k \in DOMAIN runs, soil \in SoilResponses, soilFails \in BOOLEAN,
          queryFails \in BOOLEAN : FetchSoilAndFold(k, soil, soilFails, queryFails)
    \/ \E c \in DOMAIN calls : FoldPercentages(c)
    \/ \E c \in DOMAIN calls : FoldSave(c)
    \/ \E c \in DOMAIN calls : FoldSaveFails(c)
    \/ \E c \in DOMAIN calls : FoldReturn(c)
    \/ \E k \in DOMAIN runs : RunReturns(k)
    \/ \E k \in DOMAIN runs : RunCatches(k)
    \/ \E k \in DOMAIN runs, queryFails \in BOOLEAN : RunRetries(k, queryFails)
    \/ \E k \in DOMAIN runs : RunRetryFails(k)

SpecCollect == InitCollect /\ [][CollectNext]_vars

----------------------------------------------------------------------------
(* startSchedulers, stopSchedulers and scheduleFarmingTips,                *)
(* utils/dataScheduler.js: the two handles of the module, the timers Node  *)
(* holds, and what the timers fire.                                        *)

MaxSchedulerEvents == 5

Environments == {"production", "development"}

\* clearInterval(id)
clearInterval(intervals, id) == {t \in intervals : t.id # id}

\* stopSchedulers with the handles reset and the timers left running.
stopSchedulersForgetting(s) ==
    [s EXCEPT !.weatherIntervalId = 0, !.farmingTipsIntervalId = 0]

\* stopSchedulers: each handle that is set is cleared and reset to null.
stopSchedulers(s) ==
    [s EXCEPT !.intervals = clearInterval(clearInterval(@, s.weatherIntervalId),
                                          s.farmingTipsIntervalId),
              !.weatherIntervalId = 0, !.farmingTipsIntervalId = 0]

\* setInterval(callback, ...) assigned to the handle of `kind`.
setInterval(s, kind) ==
    [s EXCEPT !.intervals = @ \cup {[id |-> s.nextId, kind |-> kind]},
              !.nextId = @ + 1,
              !.weatherIntervalId = IF kind = "weather" THEN s.nextId ELSE @,
              !.farmingTipsIntervalId = IF kind = "tips" THEN s.nextId ELSE @]

\* scheduleFarmingTips: an interval that is still set is cleared, the weekly
\* interval is set, and in development a tip is scheduled 10 seconds ahead.
scheduleFarmingTips(s) ==
    LET cleared == IF s.farmingTipsIntervalId # 0
                   THEN [s EXCEPT !.intervals =
                                      clearInterval(@, s.farmingTipsIntervalId)]
                   ELSE s
        set == setInterval(cleared, "tips")
    IN  IF s.env = "development"
        THEN [set EXCEPT !.timeouts = @ \cup {set.nextId}, !.nextId = @ + 1]
        ELSE set

Logged(s, what, timer) == [s EXCEPT !.log = Append(@, [what |-> what, timer |-> timer])]

\* startSchedulers(): the schedulers are stopped, one collection is started
\* at once, the weather interval is set and the farming tips are scheduled.
StartSchedulers ==
    /\ Len(scheduler.log) < MaxSchedulerEvents
    /\ runs' = Append(runs, NewRun(NoCoordinates, NoFarmer))
    /\ LET started == scheduleFarmingTips(
                          setInterval(stopSchedulers(scheduler), "weather"))
       IN  scheduler' = [Logged(started, "start", started.weatherIntervalId)
                            EXCEPT !.lastCall = "start"]
    /\ UNCHANGED <<today, db, calls, diags, reqs, delivery, notifications>>
    /\ UNCHANGED pureVars

\* stopSchedulers()
StopSchedulers ==
    /\ Len(scheduler.log) < MaxSchedulerEvents
    /\ scheduler' = [Logged(stopSchedulers(scheduler), "stop", 0)
                        EXCEPT !.lastCall = "stop"]
    /\ UNCHANGED <<today, db, calls, diags, reqs, delivery, notifications, runs>>
    /\ UNCHANGED pureVars

\* The weather interval fires: executeDataCollection is called without
\* arguments.
WeatherTick(t) ==
    /\ Len(scheduler.log) < MaxSchedulerEvents
    /\ t \in scheduler.intervals /\ t.kind = "weather"
    /\ runs' = Append(runs, NewRun(NoCoordinates, NoFarmer))
    /\ scheduler' = Logged(scheduler, "tick", t.id)
    /\ UNCHANGED <<today, db, calls, diags, reqs, delivery, notifications>>
    /\ UNCHANGED pureVars

\* The farming-tips interval fires: the tips are sent, errors are logged.
TipsTick(t) ==
    /\ Len(scheduler.log) < MaxSchedulerEvents
    /\ t \in scheduler.intervals /\ t.kind = "tips"
    /\ scheduler' = Logged(scheduler, "tips", t.id)
    /\ UNCHANGED <<today, db, calls, diags, reqs, delivery, notifications, runs>>
    /\ UNCHANGED pureVars

\* The timeout of the development build fires, once.
TipsTimeout(id) ==
    /\ Len(scheduler.log) < MaxSchedulerEvents
    /\ id \in scheduler.timeouts
    /\ scheduler' = [Logged(scheduler, "tip", id) EXCEPT !.timeouts = @ \ {id}]
    /\ UNCHANGED <<today, db, calls, diags, reqs, delivery, notifications, runs>>
    /\ UNCHANGED pureVars

\* The module is loaded, in production or in development; the store is empty.
InitSchedule ==
    /\ reading = Reading(R(22), R(70), R(0), R(50))
    /\ prevReading = reading
    /\ criResult = NoResult
    /\ prevResult = NoResult
    /\ cpc = "input"
    /\ raw = NoResult
    /\ cleaned = NoResult
    /\ today = StartDay /\ db = <<>> /\ calls = <<>> /\ diags = <<>> /\ reqs = <<>>
    /\ delivery = "ok" /\ notifications = EmptyBag /\ runs = <<>>
    /\ scheduler \in {[SchedulerOff EXCEPT !.env = e] : e \in Environments}

ScheduleNext ==
    \/ StartSchedulers
    \/ StopSchedulers
    \/ \E t \in scheduler.intervals : WeatherTick(t)
    \/ \E t \in scheduler.intervals : TipsTick(t)
    \/ \E id \in scheduler.timeouts : TipsTimeout(id)

SpecSchedule == InitSchedule /\ [][ScheduleNext]_vars

----------------------------------------------------------------------------
(* Claims about the aggregator and the reconciler.                         *)

Quiet == \A c \in DOMAIN calls : calls[c].pc \in {"saved", "returned"}

\* C5: in every reachable state, whatever the interleaving of the
\* addEnvironmentalReading calls, there is at most one record per
\* (farmerId, coordinates, calendar day). The code queries and then creates
\* without a unique index, so two first readings of a day both create.
C5_OneRecordPerDay ==
    \A i, j \in DOMAIN db :
        (/\ db[i].farmerId = db[j].farmerId
         /\ db[i].coordinates = db[j].coordinates
         /\ db[i].date = db[j].date) => i = j

\* The aggregates lines 636-672 compute from a list of readings.
Aggregates(readings) ==
    LET temperature == calculateAverage(filterBoolean(Field(readings, "temperature")))
        humidity == calculateAverage(filterBoolean(Field(readings, "humidity")))
        soilMoisture == calculateAverage(filterBoolean(Field(readings, "soilMoisture")))
        rainfall == RSum(Field(readings, "rainfall"))
    IN  [temperature |-> temperature, humidity |-> humidity,
         soilMoisture |-> soilMoisture, rainfall |-> rainfall,
         cri |-> calculateCRI([temperature |-> temperature, humidity |-> humidity,
                               soilMoisture |-> soilMoisture,
                               rainfall |-> rainfall]).cri]

\* C6: folds into the same day-record are serialized: once the calls have
\* written, each stored record holds every reading folded into it, and its
\* averages, rainfall sum and cri are those computed from that complete list.
C6_FoldsSerialized ==
    Quiet =>
        \A i \in DOMAIN db :
            /\ Len(db[i].readings) =
                   Cardinality({c \in DOMAIN calls : calls[c].docId = i})
            /\ [f \in DOMAIN Aggregates(db[i].readings) |-> db[i][f]] =
                   Aggregates(db[i].readings)

Mean(numbers) == RDiv(RSum(numbers), R(Len(numbers)))

\* C7: after any number of sequential folds the record's rainfall is the sum
\* of the readings' rainfall, and its temperature, humidity and soilMoisture
\* are the arithmetic means over all the readings, zeros included (no reading
\* of the model has a null field).
C7_SumAndMean ==
    \A i \in DOMAIN db :
        /\ db[i].rainfall = RSum(Field(db[i].readings, "rainfall"))
        /\ db[i].temperature = Mean(Field(db[i].readings, "temperature"))
        /\ db[i].humidity = Mean(Field(db[i].readings, "humidity"))
        /\ db[i].soilMoisture = Mean(Field(db[i].readings, "soilMoisture"))

StoredAverages(record) ==
    [temperature |-> record.temperature, humidity |-> record.humidity,
     rainfall |-> record.rainfall, soilMoisture |-> record.soilMoisture]

\* C8: for every persisted record, in every reachable state (after any folds
\* and diagnosis reconciliations), calculateCRI on the stored temperature,
\* humidity, rainfall and soilMoisture reproduces the stored cri, riskLevel
\* and blightType.
C8_RoundTrip ==
    \A i \in DOMAIN db :
        calculateCRI(StoredAverages(db[i])) =
            [cri |-> db[i].cri, riskLevel |-> db[i].riskLevel,
             blightType |-> db[i].blightType]

\* The image's blight and the CRI's side of 50 point in opposite directions.
Opposite(cri, condition) ==
    \/ condition = "Late Blight" /\ RLe(cri, R(50))
    \/ condition = "Early Blight" /\ RGe(cri, R(50))

OppositeShift(cri, condition, confidence) ==
    IF condition = "Late Blight"
    THEN RMin(R(100), RAdd(cri, RDiv(confidence, R(10))))
    ELSE RMax(R(1), RSub(cri, RDiv(confidence, R(10))))

\* C9: when the image says Late Blight and the cri the request read is <= 50,
\* diagnosePlant adjusts, and the value it writes to the record is
\* min(100, cri + confidence/10); when the image says Early Blight and the cri
\* is >= 50 it writes max(1, cri - confidence/10).
C9_OppositeShift ==
    [][\A q \in DOMAIN reqs :
          /\ (/\ reqs[q].pc = "read"
              /\ reqs'[q].pc \in {"adjusted", "agreed"}
              /\ Opposite(reqs[q].currentCRI, reqs'[q].condition))
             => /\ reqs'[q].pc = "adjusted"
                /\ reqs'[q].adjustedCRI =
                       OppositeShift(reqs[q].currentCRI, reqs'[q].condition,
                                     reqs'[q].confidence)
          /\ (/\ reqs[q].pc = "adjusted"
              /\ reqs'[q].pc = "updated"
              /\ Opposite(reqs[q].currentCRI, reqs[q].condition))
             => db'[reqs[q].envId].cri =
                    OppositeShift(reqs[q].currentCRI, reqs[q].condition,
                                  reqs[q].confidence)]_vars

C9_Witness ==
    \E q \in DOMAIN reqs :
        /\ reqs[q].pc = "updated"
        /\ reqs[q].currentCRI = R(30)
        /\ reqs[q].condition = "Late Blight"
        /\ reqs[q].confidence = R(80)
        /\ db[reqs[q].envId].cri = R(38)

\* C10: when the cri read implies a blight (cri # 50) and the image says
\* Healthy, the adjusted cri lies between the current cri and 50 and equals
\* cri + (50 - cri) * (confidence/100) * 0.5.
C10_HealthyMovesHalfway ==
    \A q \in DOMAIN reqs :
        (/\ reqs[q].pc \in {"adjusted", "updated"}
         /\ reqs[q].condition = "Healthy"
         /\ reqs[q].currentCRI # R(50))
        => /\ RLe(RMin(reqs[q].currentCRI, R(50)), reqs[q].adjustedCRI)
           /\ RLe(reqs[q].adjustedCRI, RMax(reqs[q].currentCRI, R(50)))
           /\ reqs[q].adjustedCRI =
                  RAdd(reqs[q].currentCRI,
                       RMul(RMul(RSub(R(50), reqs[q].currentCRI),
                                 RDiv(reqs[q].confidence, R(100))),
                            Frac(1, 2)))

\* C11: when the image condition is "Unknown" diagnosePlant takes the
\* non-adjusting path and none of its steps writes to the stored records; the
\* cri it reports is the cri it read from the record and the farmer message
\* is empty.
C11_UnknownIsNoOp ==
    [][\A q \in DOMAIN reqs :
          /\ (reqs[q].pc = "read" /\ reqs'[q].condition = "Unknown")
             => /\ reqs'[q].pc = "agreed"
                /\ reqs'[q].adjustedCRI = reqs[q].currentCRI
                /\ reqs'[q].farmerMessage = FALSE
                /\ db' = db
          /\ (reqs[q].condition = "Unknown" /\ reqs'[q] # reqs[q])
             => /\ reqs'[q].pc = "answered" /\ reqs'[q].status = 200
                /\ reqs'[q].adjustedCRI = reqs[q].currentCRI
                /\ reqs'[q].farmerMessage = FALSE
                /\ db' = db]_vars

C11_Witness ==
    \E q \in DOMAIN reqs :
        /\ reqs[q].pc = "agreed"
        /\ reqs[q].condition = "Unknown"
        /\ reqs[q].currentCRI = R(50)
        /\ db[reqs[q].envId].cri = R(50)
        /\ reqs[q].adjustedCRI = R(50)

\* The completed Diagnoses whose request rewrote record i: the snapshot and
\* the condition they keep contradict each other, so the request went
\* through updateOne before it saved them.
Rewrites(i) ==
    {d \in DOMAIN diags :
        /\ diags[d].status = "completed"
        /\ diags[d].environmentalDataId = i
        /\ contradicts(criLikelihoodOf(diags[d].cri), diags[d].condition)
        /\ RGt(diags[d].confidence, R(0))}

\* C12: the reconciler rewrites the cri of a given record at most once,
\* whatever the number of diagnosePlant requests of the farmer.
C12_RewrittenAtMostOnce ==
    \A i \in DOMAIN db : Cardinality(Rewrites(i)) <= 1

\* C13: the reconciler's overwrite is atomic with respect to folds: the cri
\* it adjusted is the cri stored immediately before its write, and the save
\* of a fold that loaded the record before the reconciler's write does not
\* replace the cri the reconciler wrote.
C13_AtomicOverwrite ==
    [][/\ \A q \in DOMAIN reqs :
            (reqs[q].pc = "adjusted" /\ reqs'[q].pc = "updated")
            => reqs[q].currentCRI = db[reqs[q].envId].cri
       /\ \A c \in DOMAIN calls :
            (/\ calls[c].pc = "changes" /\ calls'[c].pc = "saved"
             /\ calls[c].docId # 0
             /\ db[calls[c].docId].cri # calls[c].loaded.cri)
            => db'[calls[c].docId].cri = db[calls[c].docId].cri]_vars

\* The requests for validation v that were answered 200: they reconciled
\* and completed the Diagnosis.
Completions(v) ==
    {q \in DOMAIN reqs :
        /\ reqs[q].validationId = v
        /\ reqs[q].pc = "answered"
        /\ reqs[q].status = 200}

\* C14: a Diagnosis is created "validated" and completed exactly once: of the
\* diagnosePlant requests carrying one validationId, at most one performs the
\* reconciliation and the completion.
C14_CompletedOnce ==
    \A v \in DOMAIN diags :
        /\ diags[v].status \in {"validated", "completed"}
        /\ Cardinality(Completions(v)) <= 1

\* The sendNotification calls of the given type made by the step.
Dispatched(type) ==
    LET new == notifications' (-) notifications
    IN  {n \in BagToSet(new) : n.type = type}

DispatchCount(type) ==
    LET new == notifications' (-) notifications
        ofType == {n \in BagToSet(new) : n.type = type}
    IN  IF ofType = {} THEN 0
        ELSE LET n == CHOOSE x \in ofType : TRUE
             IN  IF Cardinality(ofType) = 1 THEN new[n] ELSE 2

Returns(c) == calls[c].pc = "saved" /\ calls'[c].pc # "saved"

\* C15: triggerBlightRiskNotification, invoked on the record of a returning
\* call, dispatches a notification if and only if the record has a farmerId
\* and its riskLevel is Medium, High or Critical, with priority medium, high
\* and urgent respectively; a record of Low risk never produces one, whatever
\* its blightType, and neither does the same record without its farmerId.
C15_BlightRiskDispatch ==
    [][\A c \in DOMAIN calls :
          (Returns(c) /\ calls[c].farmerId # NoFarmer) =>
          LET record == calls[c].doc
              due == /\ record.farmerId # NoFarmer
                     /\ record.riskLevel \in {"Medium", "High", "Critical"}
          IN  /\ DispatchCount("blight") = IF due THEN 1 ELSE 0
              /\ \A n \in Dispatched("blight") :
                    /\ n.farmerId = record.farmerId
                    /\ n.priority =
                          CASE record.riskLevel = "Medium" -> "medium"
                            [] record.riskLevel = "High" -> "high"
                            [] record.riskLevel = "Critical" -> "urgent"
                            [] OTHER -> "none"
              /\ record.riskLevel = "Low" => Dispatched("blight") = {}
              /\ triggerBlightRiskNotification(
                     [record EXCEPT !.farmerId = NoFarmer]) = NoDispatch]_vars

C15_Witness ==
    /\ \E c \in DOMAIN calls : calls[c].pc = "returned"
    /\ \E n \in BagToSet(notifications) :
          /\ n.type = "blight" /\ n.priority = "urgent"
          /\ n.title[1] = "Critical"

\* The metrics whose daily change crosses the stated threshold.
CrossedMetrics(changes) ==
    IF changes = NoChanges THEN {}
    ELSE {m \in {"temperature", "humidity", "rainfall", "soilMoisture"} :
            CASE m = "temperature" -> RGe(RAbs(changes[m]), R(15))
              [] m = "humidity" -> RGe(RAbs(changes[m]), R(20))
              [] m = "rainfall" -> RGt(changes[m], R(100))
              [] OTHER -> RGe(RAbs(changes[m]), R(25))}

\* C16: each time the weather-change rule runs it dispatches exactly one
\* combined notification when at least one daily change crosses its threshold
\* (|temperature| >= 15, |humidity| >= 20, rainfall > 100, |soilMoisture| >= 25)
\* and none otherwise; the notification lists the crossed metrics and no other.
C16_WeatherChangeDispatch ==
    [][\A c \in DOMAIN calls :
          (Returns(c) /\ calls[c].farmerId # NoFarmer) =>
          LET crossed == CrossedMetrics(calls[c].doc.percentageChanges.daily)
          IN  /\ DispatchCount("weather") = IF crossed = {} THEN 0 ELSE 1
              /\ \A n \in Dispatched("weather") :
                    n.title = crossed /\ n.priority = "medium"]_vars

C16_Witness ==
    /\ \E c \in DOMAIN calls : calls[c].pc = "returned"
    /\ \E n \in BagToSet(notifications) :
          /\ n.type = "weather"
          /\ n.title = {"temperature"}
          /\ n.data.changes.temperature = R(15)
          /\ n.data.changes.rainfall = R(0)

\* C17: alerting is best-effort: whatever sendNotification meets (a missing
\* farmer, a save that fails), no addEnvironmentalReading call ends with an
\* error, and a call that has returned has its reading persisted in the
\* day-record.
C17_AlertingIsBestEffort ==
    \A c \in DOMAIN calls :
        /\ calls[c].pc # "threw"
        /\ calls[c].pc = "returned" =>
              /\ calls[c].docId \in DOMAIN db
              /\ \E k \in DOMAIN db[calls[c].docId].readings :
                    db[calls[c].docId].readings[k] = calls[c].reading

C17_Witness ==
    /\ delivery \in {"noFarmer", "saveFails"}
    /\ \E n \in BagToSet(notifications) : n.outcome = "threw" /\ n.type = "blight"
    /\ \E n \in BagToSet(notifications) : n.outcome = "threw" /\ n.type = "weather"
    /\ \E c \in DOMAIN calls :
          /\ calls[c].pc = "returned"
          /\ Len(db[calls[c].docId].readings) = 1
          /\ db[calls[c].docId].readings[1] = calls[c].reading

----------------------------------------------------------------------------
(* Claims about validateEnvironmentalData, checked under SpecValidate.     *)

\* A finite number: neither NaN, nor null, nor undefined.
isFinite(x) == x.kind = "number"

\* The fields of the raw reading that are not usable as they are: missing,
\* null, NaN, a humidity outside [0, 100], a negative rainfall.
invalidTemperature == ~isFinite(raw.temperature)
invalidHumidity ==
    \/ ~isFinite(raw.humidity)
    \/ RLt(raw.humidity.value, R(0))
    \/ RGt(raw.humidity.value, R(100))
invalidRainfall == ~isFinite(raw.rainfall) \/ RLt(raw.rainfall.value, R(0))
invalidSoilMoisture == ~isFinite(raw.soilMoisture)

\* C18: once validateEnvironmentalData has returned, the four fields of the
\* cleaned reading are finite numbers, humidity lies in [0, 100] and rainfall
\* is not negative; an invalid temperature has become 22, an invalid humidity
\* 70, an invalid rainfall 0, a missing or invalid soilMoisture a finite
\* estimate; and errors is non-empty whenever a field was invalid.
C18_CleanedIsPopulated ==
    cpc = "validated" =>
        LET c == cleaned.cleanedData
        IN  /\ isFinite(c.temperature) /\ isFinite(c.humidity)
            /\ isFinite(c.rainfall) /\ isFinite(c.soilMoisture)
            /\ RGe(c.humidity.value, R(0)) /\ RLe(c.humidity.value, R(100))
            /\ RGe(c.rainfall.value, R(0))
            /\ (invalidTemperature => c.temperature = Num(R(22)))
            /\ (invalidHumidity => c.humidity = Num(R(70)))
            /\ (invalidRainfall => c.rainfall = Num(R(0)))
            /\ (invalidTemperature \/ invalidHumidity \/ invalidRainfall
                    \/ invalidSoilMoisture => Len(cleaned.errors) > 0)

----------------------------------------------------------------------------
(* Claims about executeDataCollection, checked under SpecCollect.          *)

\* The call of addEnvironmentalReading run k waits for, or waited for last.
CallOf(k) == calls[runs[k].call]

\* The records of the current day the key of run k selects.
RecordsOf(k) ==
    findDailyRecord(db, today, locationCoords(runs[k].coordinates), runs[k].farmerId)

\* C19: when the weather fetch of a run has failed, the run hands the reading
\* 22 / 70 / 0 / 50 to addEnvironmentalReading for its farmer and its
\* coordinates, and when the run has completed with that call returned (the
\* persistence succeeded), a record of the current day exists for that key and
\* holds the reading.
C19_FallbackFillsTheDay ==
    \A k \in DOMAIN runs :
        runs[k].weatherFailed /\ runs[k].pc # "caught" =>
            /\ runs[k].call # 0
            /\ CallOf(k).reading = defaultData
            /\ CallOf(k).farmerId = runs[k].farmerId
            /\ CallOf(k).coordinates = locationCoords(runs[k].coordinates)
            /\ (runs[k].pc = "resolved" /\ CallOf(k).pc = "returned" =>
                   \E i \in RecordsOf(k) :
                       /\ db[i].date = today
                       /\ \E j \in DOMAIN db[i].readings :
                              db[i].readings[j] = defaultData)

\* A run on an empty store whose weather fetch failed has completed: the
\* store holds one record, made of the fallback reading alone.
C19_Witness ==
    \E k \in DOMAIN runs :
        /\ runs[k].weatherFailed /\ runs[k].pc = "resolved"
        /\ CallOf(k).pc = "returned"
        /\ Len(db) = 1 /\ db[1].readings = <<defaultData>>

\* C20: no run of executeDataCollection ends rejected, whichever of the
\* weather fetch, the soil fetch, the first save and the fallback save fail.
C20_NeverRejects ==
    \A k \in DOMAIN runs :
        /\ runs[k].pc # "rejected"
        /\ (runs[k].pc \in {"folding", "refolding"} /\ CallOf(k).pc = "threw"
               => ENABLED (RunCatches(k) \/ RunRetryFails(k)))

\* A run has resolved after its weather fetch and its fallback call both
\* failed, and another after its soil fetch and both of its calls failed.
C20_Witness ==
    \E k \in DOMAIN runs :
        /\ runs[k].pc = "resolved" /\ runs[k].caught = 2
        /\ CallOf(k).pc = "threw"
        /\ runs[k].weatherFailed \/ runs[k].soilFailed

----------------------------------------------------------------------------
(* Claims about the percentage changes, checked under SpecChange.          *)

\* The change of a value against an older one: (new - old) / |old| * 100,
\* and 100 or 0 against an older value of 0.
ChangeOfValue(new, old) ==
    IF old # R(0) THEN RMul(RDiv(RSub(new, old), RAbs(old)), R(100))
    ELSE IF RGt(new, R(0)) THEN R(100) ELSE R(0)

\* The dates of the three comparison periods of a record.
PeriodDate(record, period) ==
    CASE period = "daily" -> setDateBack(record.date, 1)
      [] period = "weekly" -> setDateBack(record.date, 7)
      [] OTHER -> setMonthBack(record.date)

Periods == {"daily", "weekly", "monthly"}

\* Call c saves its record in this step.
Saves(c) == calls[c].pc = "changes" /\ calls'[c].pc = "saved"

\* The record call c has just saved, as stored.
Saved(c) == db'[calls'[c].docId]

\* The stored record holds, for every period, the changes of its stored
\* values against a record of the period's date at its location, and the
\* empty object when there is no such record.
StoresChanges(record) ==
    \A period \in Periods :
        LET found == findByDateLocation(db, PeriodDate(record, period),
                                        record.locationId)
        IN  IF found = {} THEN record.percentageChanges[period] = NoChanges
            ELSE \E i \in found :
                    /\ record.percentageChanges[period] # NoChanges
                    /\ \A m \in Metrics :
                          record.percentageChanges[period][m] =
                              ChangeOfValue(record[m], db[i][m])

\* C21: the record a call saves holds, for each period whose earlier record
\* exists, the change (new - old) / |old| * 100 of each of temperature,
\* humidity, rainfall, soilMoisture and cri (100 or 0 against an old value of
\* 0), and the empty object for a period whose earlier record is missing.
C21_StoresTheChange ==
    [][\A c \in DOMAIN calls : Saves(c) => StoresChanges(Saved(c))]_vars

\* The day one calendar month before: the same day of the previous month,
\* or that month's last day when it is shorter.
CalendarMonthBefore(date) ==
    LET m == IF MonthOf(date) = 1 THEN 12 ELSE MonthOf(date) - 1
        y == IF MonthOf(date) = 1 THEN YearOf(date) - 1 ELSE YearOf(date)
        d == IF DayOf(date) > MonthLengths[m] THEN MonthLengths[m] ELSE DayOf(date)
    IN  MakeDate(y, m, d)

ExactDate(record, period) ==
    CASE period = "daily" -> record.date - 1
      [] period = "weekly" -> record.date - 7
      [] OTHER -> CalendarMonthBefore(record.date)

\* The records a comparison of `record` for `period` may be made against:
\* those of the same farmer at the same location, of the period's exact date.
Baselines(record, period) ==
    {i \in DOMAIN db :
        /\ db[i].date = ExactDate(record, period)
        /\ db[i].farmerId = record.farmerId
        /\ db[i].locationId = record.locationId}

\* C22: the changes of a period a call stores are those against a record of
\* the same farmer and the same location dated exactly 1 day, 7 days or one
\* calendar month before; no record of another farmer, or of none, is the
\* baseline.
C22_BaselineOfSameFarmer ==
    [][\A c \in DOMAIN calls :
          Saves(c) =>
          \A period \in Periods :
              Saved(c).percentageChanges[period] # NoChanges =>
                  \E i \in Baselines(Saved(c), period) :
                      Saved(c).percentageChanges[period] =
                          changesAgainst(Saved(c), db[i])]_vars

----------------------------------------------------------------------------
(* Further claims about the reconciler.                                    *)

\* Request q is answered with its diagnosis in this step.
Responds(q) == reqs[q].pc \in {"agreed", "updated"} /\ reqs'[q].pc = "answered"

\* C23: the response of diagnosePlant carries a farmerMessage if and only if
\* the reconciliation changed the CRI: none when the CRI-implied condition and
\* the image condition agree or the image is Unknown, and with a message the
\* adjusted cri differs from the cri read before the diagnosis.
C23_MessageIffAdjusted ==
    [][\A q \in DOMAIN reqs :
          Responds(q) =>
          /\ (reqs[q].farmerMessage <=> reqs[q].adjustedCRI # reqs[q].currentCRI)
          /\ (reqs[q].condition = "Unknown" => ~reqs[q].farmerMessage)
          /\ (reqs[q].condition = criLikelihoodOf(reqs[q].currentCRI)
                 => ~reqs[q].farmerMessage)]_vars

----------------------------------------------------------------------------
(* Claims about estimateSoilMoisture, checked under SpecEstimate.          *)

\* The rainfall an argument stands for: NaN, undefined and null count as 0.
RainfallOf(x) == IF x.kind = "number" THEN x.value ELSE R(0)

InPercentRange(x) ==
    /\ x.kind = "number"
    /\ RGe(x.value, R(0)) /\ RLe(x.value, R(100))

\* C24: both estimates are finite numbers in [0, 100], never NaN; the
\* estimate of the larger rainfall is not lower than that of the smaller; and
\* a rainfall of 30 mm or more gives 100.
C24_EstimateIsMonotone ==
    cpc = "estimated" =>
        /\ InPercentRange(cleaned.first) /\ InPercentRange(cleaned.second)
        /\ (RLe(RainfallOf(raw.first), RainfallOf(raw.second))
               => RLe(cleaned.first.value, cleaned.second.value))
        /\ (RGe(RainfallOf(raw.second), R(30)) => cleaned.second = Num(R(100)))

----------------------------------------------------------------------------
(* Further claims about executeDataCollection, checked under SpecCollect.  *)

\* C25: when a call of addEnvironmentalReading has failed to persist, the run
\* goes on with the reading it fetched: every call a run makes after a
\* successful fetch carries that reading, never other values; and a run makes
\* a bounded number of calls.
C25_SameReadingRetried ==
    \A k \in DOMAIN runs :
        /\ runs[k].caught <= 2
        /\ (~runs[k].weatherFailed /\ runs[k].call # 0
               => CallOf(k).reading = runs[k].data)

----------------------------------------------------------------------------
(* Claims about the schedulers, checked under SpecSchedule.                *)

Active(kind) == {t \in scheduler.intervals : t.kind = kind}

Starts ==
    /\ Len(scheduler'.log) = Len(scheduler.log) + 1
    /\ scheduler'.log[Len(scheduler'.log)].what = "start"

TicksOf(log, timer) ==
    {i \in DOMAIN log : log[i].what = "tick" /\ log[i].timer = timer}

\* C26: after any sequence of startSchedulers and stopSchedulers calls at most
\* one weather interval and at most one farming-tips interval are active, and
\* they are the ones the handles hold; startSchedulers starts one collection
\* at once, before the interval it sets has ticked; after stopSchedulers no
\* interval is active and both handles are null.
C26_OneTimerEach ==
    /\ [](/\ Cardinality(Active("weather")) <= 1
          /\ Cardinality(Active("tips")) <= 1
          /\ \A t \in scheduler.intervals :
                 t.id = IF t.kind = "weather" THEN scheduler.weatherIntervalId
                                              ELSE scheduler.farmingTipsIntervalId
          /\ scheduler.lastCall = "stop" =>
                 /\ scheduler.intervals = {}
                 /\ scheduler.weatherIntervalId = 0
                 /\ scheduler.farmingTipsIntervalId = 0)
    /\ [][Starts =>
             /\ runs' = Append(runs, NewRun(NoCoordinates, NoFarmer))
             /\ TicksOf(scheduler'.log, scheduler'.weatherIntervalId) = {}
             /\ Cardinality(Active("weather")') = 1
             /\ Cardinality(Active("tips")') = 1]_vars

\* The schedulers were started twice, the second weather interval has ticked,
\* and they were stopped.
C26_Witness ==
    /\ Cardinality({i \in DOMAIN scheduler.log : scheduler.log[i].what = "start"}) = 2
    /\ \E i \in DOMAIN scheduler.log :
           /\ scheduler.log[i].what = "tick"
           /\ \E j \in 1..(i - 1) : /\ scheduler.log[j].what = "start"
                                     /\ scheduler.log[j].timer = scheduler.log[i].timer
                                     /\ \E h \in 1..(j - 1) : scheduler.log[h].what = "start"
    /\ scheduler.lastCall = "stop"
    /\ Len(runs) = 3

----------------------------------------------------------------------------
(* A further claim about calculateCRI, checked under SpecCRI.              *)

\* C27: the riskLevel and the blightType calculateCRI returns are the ones
\* the thresholds assign to the cri it returns, the value rounded to two
\* decimals: a returned cri of 50 is Healthy, and a returned cri is never on
\* one side of 20, 30, 40, 60, 70 or 80 with the riskLevel of the other side.
C27_BandingOfReturnedCri ==
    Returned =>
        /\ criResult.riskLevel = classifyRisk(criResult.cri)
        /\ criResult.blightType = classifyBlight(criResult.cri)

----------------------------------------------------------------------------
(* A claim about the owner of a record, checked under SpecCollect.         *)

\* C28: a fold issued without a farmerId (that of a run the scheduler
\* started without arguments) never appends a reading to a record whose
\* farmerId is set, nor recomputes its averages and cri: the save of such a
\* call leaves every record of a farmer as it was.
C28_FarmerRecordsUntouched ==
    [][\A c \in DOMAIN calls :
          (Saves(c) /\ calls[c].farmerId = NoFarmer) =>
              \A i \in DOMAIN db : db[i].farmerId # NoFarmer => db'[i] = db[i]]_vars

----------------------------------------------------------------------------
(* A claim about the range of the cri, checked under SpecCRI.              *)

WithinPercent(d) == InRange(d.humidity, 0, 100) /\ InRange(d.soilMoisture, 0, 100)

\* The record addEnvironmentalReading creates for a farmer's first reading
\* of the day, without image diagnosis.
FirstRecordOf(d) ==
    newDailyRecord(StartDay, d, DefaultLocation, "kampala", "farmerA", NoDiagnosis)

NotUrgent(record) ==
    LET sent == triggerBlightRiskNotification(record).sent
    IN  \A i \in DOMAIN sent : sent[i].priority # "urgent"

\* C29: for a humidity and a soil moisture within [0, 100] and any
\* temperature, calculateCRI returns 27 <= cri <= 77 and never the riskLevel
\* Critical, and the blight alert of a fold without image diagnosis (of the
\* record created for the reading, and of that record with a second such
\* reading folded in) is never of urgent priority.
C29_CriBetween27And77 ==
    /\ (Returned /\ WithinPercent(reading)) =>
           /\ InRange(criResult.cri, 27, 77)
           /\ criResult.riskLevel # "Critical"
           /\ InRange(FirstRecordOf(reading).cri, 27, 77)
           /\ NotUrgent(FirstRecordOf(reading))
    /\ (cpc = "again" /\ WithinPercent(reading) /\ WithinPercent(prevReading)) =>
           LET folded == foldInto(FirstRecordOf(prevReading), reading, NoDiagnosis)
           IN  /\ InRange(folded.cri, 27, 77)
               /\ folded.riskLevel # "Critical"
               /\ NotUrgent(folded)

\* The lower end is reached and raises an alert of high priority: 29 degrees,
\* a humidity of 0 and dry soil give 50 - 10 - 8 - 5 = 27; 10 degrees with
\* humidity and soil at 100 give the upper end, 77.
C29_Witness ==
    /\ cpc = "returned"
    /\ reading = Reading(R(29), R(0), R(0), R(0))
    /\ criResult.cri = R(27)
    /\ criResult.riskLevel = "High"
    /\ triggerBlightRiskNotification(FirstRecordOf(reading)).sent # <<>>
    /\ calculateCRI(Reading(R(10), R(100), R(0), R(100))).cri = R(77)

----------------------------------------------------------------------------
(* A claim about what the reconciler writes, checked under Spec.           *)

Reconciles(q) == reqs[q].pc = "adjusted" /\ reqs'[q].pc = "updated"

InRequest(q) == reqs[q].pc \in {"pending", "read", "adjusted", "agreed", "updated"}

====
